---- MODULE Spec2Model ----
(***************************************************************************)
(* Canvas layout and drag engine of the conversation-graph editor.         *)
(*                                                                         *)
(* A node of the collection is a record                                    *)
(*   id, type ("chatNode" | "groupNode"), x, y   position, relative to the *)
(*                                   parent group when parentNode is set   *)
(*   parentNode                      id of the parent group, NoParent if   *)
(*                                   the field is absent                   *)
(*   styleW, styleH                  style.width / style.height, Undef if  *)
(*                                   absent                                *)
(*   height                          the measured height field, Undef if   *)
(*                                   absent                                *)
(*   selected, isLast                selected flag, data.isLast            *)
(* An edge is a record id, source, target, selected.                       *)
(* The collections are sequences: their order is the collection order the  *)
(* code iterates in (Array.find, Array.filter, Array.push).                *)
(***************************************************************************)
EXTENDS Integers, Sequences, FiniteSets, TLC

\* ---------------------------------------------------------------- bounds
\* user-level operations performed in one run
MaxOps == 4

\* children of the group the layout functions are applied to
MaxKids == 3

\* ------------------------------------------------------- program constants
GROUP_PADDING_TOP == 30
GROUP_PADDING_BOTTOM == 15
GROUP_WIDTH == 400
NODE_GAP == 15
DEFAULT_NODE_HEIGHT == 150
INIT_X == 250
INIT_Y == 50
OFFSET_Y == 300
BRANCH_OFFSET_X == 60
PADDING_X == 40
DEFAULT_GROUP_WIDTH == GROUP_WIDTH
DEFAULT_CHILD_WIDTH == DEFAULT_GROUP_WIDTH - PADDING_X
MIN_GROUP_HEIGHT == 150
FALLBACK_GROUP_HEIGHT == 300
CHILD_X == 20
CLICK_THRESHOLD == 5
SPLIT_EXTRA == 20
SPLIT_MARGIN == 30
MAX_NUDGE == 50
MIN_CHILD_WIDTH == 200
GROUP_AUTO_HEIGHT == 60

\* an absent (undefined) numeric field, and an absent parentNode
Undef == -1
NoParent == 0

\* ------------------------------------------------------------ sequences
Range(s) == {s[i] : i \in 1..Len(s)}

Ids(s) == {s[i].id : i \in 1..Len(s)}

\* Array.find: index of the first element with this id, 0 if none
IndexOf(s, id) ==
    IF \E i \in 1..Len(s) : s[i].id = id
    THEN CHOOSE i \in 1..Len(s) : s[i].id = id /\ \A j \in 1..(i - 1) : s[j].id # id
    ELSE 0

NodeOf(s, id) == s[IndexOf(s, id)]

Max(a, b) == IF a > b THEN a ELSE b

Abs(a) == IF a < 0 THEN 0 - a ELSE a

\* ------------------------------------------------- effective node height
\* useFlowInteractions.getNodeHeight: numeric style height first, then the
\* measured height unless it is falsy (absent or 0), then the default.
getNodeHeight(n) ==
    IF n.styleH # Undef THEN n.styleH
    ELSE IF n.height # Undef /\ n.height # 0 THEN n.height
    ELSE DEFAULT_NODE_HEIGHT

\* layoutUtils.getNodeHeight: same order of priority
layoutNodeHeight(n) ==
    IF n.styleH # Undef THEN n.styleH
    ELSE IF n.height # Undef /\ n.height # 0 THEN n.height
    ELSE DEFAULT_NODE_HEIGHT

\* (style.width as number) || fallback ; (style.height as number) || 300
widthOr(n, fallback) == IF n.styleW # Undef /\ n.styleW # 0 THEN n.styleW ELSE fallback

groupHeightOr300(n) ==
    IF n.styleH # Undef /\ n.styleH # 0 THEN n.styleH ELSE FALLBACK_GROUP_HEIGHT

\* ------------------------------------------------------ sort and stack
\* Array.prototype.sort((a, b) => a.position.y - b.position.y) is stable:
\* elements with equal y keep their array order.
RECURSIVE InsertByY(_, _)
InsertByY(s, n) ==
    IF s = <<>> THEN <<n>>
    ELSE IF Head(s).y <= n.y THEN <<Head(s)>> \o InsertByY(Tail(s), n)
    ELSE <<n>> \o s

RECURSIVE SortByY(_)
SortByY(s) ==
    IF s = <<>> THEN <<>>
    ELSE InsertByY(SortByY(SubSeq(s, 1, Len(s) - 1)), s[Len(s)])

\* mutant of layoutStackY: the gap between consecutive children is forgotten
RECURSIVE layoutStackYNoGap(_, _)
layoutStackYNoGap(sorted, i) ==
    IF i <= 1 THEN GROUP_PADDING_TOP
    ELSE layoutStackYNoGap(sorted, i - 1) + layoutNodeHeight(sorted[i - 1])

\* the accumulator currentY before the i-th element of the sorted siblings
\* (1-based): top padding plus height and gap of every element before it
RECURSIVE layoutStackY(_, _)
layoutStackY(sorted, i) ==
    IF i <= 1 THEN GROUP_PADDING_TOP
    ELSE layoutStackY(sorted, i - 1) + layoutNodeHeight(sorted[i - 1]) + NODE_GAP

RECURSIVE dragStackY(_, _)
dragStackY(sorted, i) ==
    IF i <= 1 THEN GROUP_PADDING_TOP
    ELSE dragStackY(sorted, i - 1) + getNodeHeight(sorted[i - 1]) + NODE_GAP

\* ------------------------------------------------------- LayoutUtils
\* getNextNodeY: reduce keeps the later element on equal y
RECURSIVE lowestNode(_)
lowestNode(s) ==
    IF Len(s) = 1 THEN s[1]
    ELSE LET prev == lowestNode(SubSeq(s, 1, Len(s) - 1))
             curr == s[Len(s)]
         IN IF prev.y > curr.y THEN prev ELSE curr

getNextNodeY(siblings) ==
    IF Len(siblings) = 0 THEN GROUP_PADDING_TOP
    ELSE LET low == lowestNode(siblings)
         IN low.y + layoutNodeHeight(low) + NODE_GAP

\* mutants of rearrangeGroup: the group height without its floor
\* ("nofloor"), written to the style only ("styleonly"), and the children
\* sorted by descending y ("descending")
Reverse(s) == [i \in 1..Len(s) |-> s[Len(s) + 1 - i]]

rearrangeGroupMutant(allNodes, groupId, m) ==
    LET siblings == SelectSeq(allNodes, LAMBDA n : n.parentNode = groupId)
        sorted == IF m = "descending" THEN Reverse(SortByY(siblings))
                  ELSE SortByY(siblings)
        currentY == layoutStackY(sorted, Len(sorted) + 1)
        rawHeight == currentY - NODE_GAP + GROUP_PADDING_BOTTOM
        newGroupHeight == IF m = "nofloor" THEN rawHeight
                          ELSE Max(rawHeight, MIN_GROUP_HEIGHT)
    IN IF IndexOf(allNodes, groupId) = 0 \/ Len(siblings) = 0 THEN allNodes
       ELSE [i \in 1..Len(allNodes) |->
               LET node == allNodes[i]
               IN IF node.id \in Ids(siblings)
                  THEN [node EXCEPT !.y = layoutStackY(sorted, IndexOf(sorted, node.id))]
                  ELSE IF node.id = groupId
                  THEN IF m = "styleonly"
                       THEN [node EXCEPT !.styleH = newGroupHeight]
                       ELSE [node EXCEPT !.styleH = newGroupHeight,
                                         !.height = newGroupHeight]
                  ELSE node]

rearrangeGroupNoFloor(allNodes, groupId) == rearrangeGroupMutant(allNodes, groupId, "nofloor")

rearrangeGroupStyleOnly(allNodes, groupId) ==
    rearrangeGroupMutant(allNodes, groupId, "styleonly")

rearrangeGroupDescending(allNodes, groupId) ==
    rearrangeGroupMutant(allNodes, groupId, "descending")

rearrangeGroup(allNodes, groupId) ==
    LET siblings == SelectSeq(allNodes, LAMBDA n : n.parentNode = groupId)
        sorted == SortByY(siblings)
        currentY == layoutStackY(sorted, Len(sorted) + 1)
        newGroupHeight ==
            Max(currentY - NODE_GAP + GROUP_PADDING_BOTTOM, MIN_GROUP_HEIGHT)
    IN IF IndexOf(allNodes, groupId) = 0 \/ Len(siblings) = 0 THEN allNodes
       ELSE [i \in 1..Len(allNodes) |->
               LET node == allNodes[i]
               IN IF node.id \in Ids(siblings)
                  THEN [node EXCEPT !.y = layoutStackY(sorted, IndexOf(sorted, node.id))]
                  ELSE IF node.id = groupId
                  THEN [node EXCEPT !.styleH = newGroupHeight, !.height = newGroupHeight]
                  ELSE node]

\* mutant of adjustLayoutAfterResize: the new height is stored and no child
\* is moved
adjustLayoutHeightOnly(ns, nodeId, newHeight) ==
    [i \in 1..Len(ns) |->
        IF ns[i].id = nodeId
        THEN [ns[i] EXCEPT !.styleH = newHeight, !.height = newHeight]
        ELSE ns[i]]

\* adjustLayoutAfterResize as it reuses rearrangeGroup
adjustLayoutAfterResize(ns, nodeId, newHeight) ==
    LET nextNodes == [i \in 1..Len(ns) |->
                        IF ns[i].id = nodeId
                        THEN [ns[i] EXCEPT !.styleH = newHeight, !.height = newHeight]
                        ELSE ns[i]]
    IN IF IndexOf(nextNodes, nodeId) = 0 THEN nextNodes
       ELSE IF NodeOf(nextNodes, nodeId).parentNode = NoParent THEN nextNodes
       ELSE rearrangeGroup(nextNodes, NodeOf(nextNodes, nodeId).parentNode)

\* adjustLayoutAfterResize with its own stacking loop (utils/layoutUtils.ts)
adjustLayoutAfterResizeInline(ns, nodeId, newHeight) ==
    IF IndexOf(ns, nodeId) = 0 THEN ns
    ELSE
    LET nextNodes == [i \in 1..Len(ns) |->
                        IF i = IndexOf(ns, nodeId)
                        THEN [ns[i] EXCEPT !.styleH = newHeight, !.height = newHeight]
                        ELSE ns[i]]
        groupId == NodeOf(nextNodes, nodeId).parentNode
        siblings == SelectSeq(nextNodes, LAMBDA n : n.parentNode = groupId)
        sorted == SortByY(siblings)
        currentY == layoutStackY(sorted, Len(sorted) + 1)
        newGroupHeight == currentY - NODE_GAP + GROUP_PADDING_BOTTOM
    IN IF groupId = NoParent THEN nextNodes
       ELSE IF IndexOf(nextNodes, groupId) = 0 THEN nextNodes
       ELSE [i \in 1..Len(nextNodes) |->
               LET node == nextNodes[i]
               IN IF node.id \in Ids(siblings)
                  THEN [node EXCEPT !.y = layoutStackY(sorted, IndexOf(sorted, node.id))]
                  ELSE IF i = IndexOf(nextNodes, groupId)
                  THEN [node EXCEPT !.styleH = Max(newGroupHeight, MIN_GROUP_HEIGHT),
                                    !.height = Max(newGroupHeight, MIN_GROUP_HEIGHT)]
                  ELSE node]

\* ------------------------------------------------------------- state
VARIABLES
    nodes,            \* the node collection (useNodesState)
    edges,            \* the edge collection (useEdgesState)
    dragStartPosRef,  \* position recorded at drag start, set = FALSE for null
    yPosRef,          \* the "next free Y" counter of new top-level groups
    nextId,           \* the next fresh id (uuidv4 never repeats)
    timeoutPending,   \* the debounce timer of the global layout pass is armed
    drag,             \* the gesture in progress: phase, dragged node id
    last,             \* the operation that produced this state, with the
                      \* handler's locals action / targetGroupNode
    ops,              \* operations performed so far
    route,            \* the router: its call and the candidate it selected
    timer,            \* the debounce of the layout pass on a time line
    gesture           \* the pointer gestures of the edge components

vars == <<nodes, edges, dragStartPosRef, yPosRef, nextId, timeoutPending, drag,
          last, ops, route, timer, gesture>>

\* the canvas, and what the canvas handlers leave alone
canvasVars == <<nodes, edges, dragStartPosRef, yPosRef, nextId, timeoutPending, drag,
                last, ops>>

auxVars == <<route, timer, gesture>>

NoRoute == [phase |-> "none"]

NoTimer == [phase |-> "none"]

NoGesture == [phase |-> "none"]

AuxIdle == route = NoRoute /\ timer = NoTimer /\ gesture = NoGesture

NullPos == [set |-> FALSE, x |-> 0, y |-> 0]

\* drag.obj is the node object the drag callbacks are given
NoNode == [id |-> NoParent]

Idle == [phase |-> "idle", node |-> NoParent, obj |-> NoNode]

Op(name) == [op |-> name, action |-> "NONE", node |-> NoParent, target |-> NoParent,
             from |-> NoParent, detached |-> 0, height |-> Undef, loops |-> 0,
             hits |-> <<>>, prior |-> <<>>]

\* ------------------------------------------------------- input domains
\* heights a leaf can report, displacements of a drag gesture, widths a
\* group can report
ReportHeights == {60, 200}

GroupWidths == {460}

DragDeltas == {<<3, 3>>, <<0, -105>>, <<0, 200>>, <<460, 0>>, <<0, -300>>}

Handles == {"right-source", "left-source"}

\* ------------------------------------------------------- NodeFactory
\* createGroup leaves style.height unset (callers add the width);
\* createChat leaves style.height unset and sets the parent reference.
createGroup(id, px, py) ==
    [id |-> id, type |-> "groupNode", x |-> px, y |-> py, parentNode |-> NoParent,
     styleW |-> Undef, styleH |-> Undef, height |-> Undef,
     selected |-> FALSE, isLast |-> FALSE]

createChat(id, px, py, isLast, parentId) ==
    [id |-> id, type |-> "chatNode", x |-> px, y |-> py, parentNode |-> parentId,
     styleW |-> Undef, styleH |-> Undef, height |-> Undef,
     selected |-> FALSE, isLast |-> isLast]

createEdge(id, source, target) ==
    [id |-> id, source |-> source, target |-> target, selected |-> FALSE]

deselectAll(nds) == [i \in 1..Len(nds) |-> [nds[i] EXCEPT !.selected = FALSE]]

IsChat(n) == n.type = "chatNode"

IsGroup(n) == n.type = "groupNode"

ChildrenOf(nds, g) == SelectSeq(nds, LAMBDA n : n.parentNode = g)

Init ==
    /\ nodes = <<>>
    /\ edges = <<>>
    /\ dragStartPosRef = NullPos
    /\ yPosRef = INIT_Y
    /\ nextId = 1
    /\ timeoutPending = FALSE
    /\ drag = Idle
    /\ last = Op("init")
    /\ ops = 0
    /\ AuxIdle

\* ------------------------------------------------ 3. new conversation
handleNewConversation ==
    /\ drag.phase = "idle"
    /\ ops < MaxOps
    /\ ops' = ops + 1
    /\ LET groupId == nextId
           nodeId == nextId + 1
           group == [createGroup(groupId, INIT_X, yPosRef)
                        EXCEPT !.styleW = DEFAULT_GROUP_WIDTH, !.selected = TRUE]
           node == [createChat(nodeId, CHILD_X, GROUP_PADDING_TOP, TRUE, groupId)
                        EXCEPT !.styleW = DEFAULT_CHILD_WIDTH]
       IN nodes' = deselectAll(nodes) \o <<group, node>>
    /\ yPosRef' = yPosRef + OFFSET_Y
    /\ nextId' = nextId + 2
    /\ last' = Op("edit")
    /\ UNCHANGED <<edges, dragStartPosRef, timeoutPending, drag, auxVars>>

\* -------------------------------------- 1. branch by handle double click
handleHandleDoubleClick(parentNodeId, handleId) ==
    /\ drag.phase = "idle"
    /\ ops < MaxOps
    /\ ops' = ops + 1
    /\ IndexOf(nodes, parentNodeId) # 0
    /\ LET parentNode == NodeOf(nodes, parentNodeId)
           hasGroup == IndexOf(nodes, parentNode.parentNode) # 0
           parentGroup == NodeOf(nodes, parentNode.parentNode)
           currentGroupWidth ==
               IF hasGroup THEN widthOr(parentGroup, DEFAULT_GROUP_WIDTH)
               ELSE DEFAULT_GROUP_WIDTH
           baseX == IF hasGroup THEN parentGroup.x ELSE parentNode.x
           baseY == IF hasGroup THEN parentGroup.y ELSE parentNode.y
           newGroupX ==
               IF handleId = "right-source"
               THEN baseX + currentGroupWidth + BRANCH_OFFSET_X
               ELSE baseX - DEFAULT_GROUP_WIDTH - BRANCH_OFFSET_X
           newGroupId == nextId
           newNodeId == nextId + 1
           newGroup == [createGroup(newGroupId, newGroupX, baseY)
                           EXCEPT !.styleW = DEFAULT_GROUP_WIDTH, !.selected = TRUE]
           newNode == [createChat(newNodeId, CHILD_X, GROUP_PADDING_TOP, TRUE, newGroupId)
                           EXCEPT !.styleW = DEFAULT_CHILD_WIDTH]
       IN /\ nodes' = deselectAll(nodes) \o <<newGroup, newNode>>
          /\ edges' = Append(edges, createEdge(nextId + 2, parentNodeId, newNodeId))
    /\ nextId' = nextId + 3
    /\ last' = Op("edit")
    /\ UNCHANGED <<dragStartPosRef, yPosRef, timeoutPending, drag, auxVars>>

\* ------------------------------------------------------- 2. follow-up
handleExtend(parentNodeId) ==
    /\ drag.phase = "idle"
    /\ ops < MaxOps
    /\ ops' = ops + 1
    /\ IndexOf(nodes, parentNodeId) # 0
    /\ NodeOf(nodes, parentNodeId).parentNode # NoParent
    /\ LET parentNode == NodeOf(nodes, parentNodeId)
           groupId == parentNode.parentNode
           currentGroupWidth ==
               IF IndexOf(nodes, groupId) # 0
               THEN widthOr(NodeOf(nodes, groupId), DEFAULT_GROUP_WIDTH)
               ELSE DEFAULT_GROUP_WIDTH
           currentChildWidth == currentGroupWidth - PADDING_X
           marked == [i \in 1..Len(nodes) |->
                        IF nodes[i].id = parentNodeId
                        THEN [nodes[i] EXCEPT !.isLast = FALSE] ELSE nodes[i]]
           siblings == ChildrenOf(nodes, groupId)
           nextY == getNextNodeY(siblings)
           newNode == [createChat(nextId, CHILD_X, nextY, TRUE, groupId)
                          EXCEPT !.styleW = currentChildWidth]
       IN nodes' = Append(marked, newNode)
    /\ nextId' = nextId + 1
    /\ last' = Op("edit")
    /\ UNCHANGED <<edges, dragStartPosRef, yPosRef, timeoutPending, drag, auxVars>>

\* ------------------------------------------------- selection, connect
\* a click on a node selects it alone (React Flow applies the selection
\* change through onNodesChange / onEdgesChange)
selectNode(id) ==
    /\ drag.phase = "idle"
    /\ ops < MaxOps
    /\ ops' = ops + 1
    /\ id \in Ids(nodes)
    /\ ~ NodeOf(nodes, id).selected
    /\ nodes' = [i \in 1..Len(nodes) |-> [nodes[i] EXCEPT !.selected = (nodes[i].id = id)]]
    /\ edges' = [i \in 1..Len(edges) |-> [edges[i] EXCEPT !.selected = FALSE]]
    /\ last' = Op("edit")
    /\ UNCHANGED <<dragStartPosRef, yPosRef, nextId, timeoutPending, drag, auxVars>>

selectEdge(id) ==
    /\ drag.phase = "idle"
    /\ ops < MaxOps
    /\ ops' = ops + 1
    /\ id \in Ids(edges)
    /\ ~ NodeOf(edges, id).selected
    /\ edges' = [i \in 1..Len(edges) |-> [edges[i] EXCEPT !.selected = (edges[i].id = id)]]
    /\ nodes' = deselectAll(nodes)
    /\ last' = Op("edit")
    /\ UNCHANGED <<dragStartPosRef, yPosRef, nextId, timeoutPending, drag, auxVars>>

onConnect(source, target) ==
    /\ drag.phase = "idle"
    /\ ops < MaxOps
    /\ ops' = ops + 1
    /\ source \in Ids(nodes) /\ target \in Ids(nodes) /\ source # target
    /\ edges' = Append(edges, createEdge(nextId, source, target))
    /\ nextId' = nextId + 1
    /\ last' = Op("edit")
    /\ UNCHANGED <<nodes, dragStartPosRef, yPosRef, timeoutPending, drag, auxVars>>

\* ------------------------------------------------------- 4. delete
\* the stacking of the remaining children of one group, in place
compactAfterDelete(nextNodes, groupNode) ==
    LET groupId == groupNode.id
        currentGroupWidth == widthOr(groupNode, DEFAULT_GROUP_WIDTH)
        currentChildWidth == currentGroupWidth - PADDING_X
        siblings == ChildrenOf(nextNodes, groupId)
        sorted == SortByY(siblings)
        newHeight == dragStackY(sorted, Len(sorted) + 1) - NODE_GAP + GROUP_PADDING_BOTTOM
    IN IF Len(siblings) = 0
       THEN SelectSeq(nextNodes, LAMBDA n : n.id # groupId)
       ELSE [i \in 1..Len(nextNodes) |->
               LET n == nextNodes[i]
               IN IF n.id \in Ids(siblings)
                  THEN LET k == IndexOf(sorted, n.id)
                       IN [n EXCEPT !.x = CHILD_X, !.y = dragStackY(sorted, k),
                                    !.styleW = currentChildWidth,
                                    !.isLast = (k = Len(sorted))]
                  ELSE IF n.id = groupId
                  THEN [groupNode EXCEPT !.styleH = newHeight, !.styleW = currentGroupWidth]
                  ELSE n]

RECURSIVE compactAll(_, _, _)
compactAll(nds, nextNodes, groupIds) ==
    IF groupIds = <<>> THEN nextNodes
    ELSE compactAll(nds,
                    IF IndexOf(nds, Head(groupIds)) = 0 THEN nextNodes
                    ELSE compactAfterDelete(nextNodes, NodeOf(nds, Head(groupIds))),
                    Tail(groupIds))

\* ids of the selected nodes and of the children of the selected groups
nodeIdsToDelete(nds) ==
    {n.id : n \in {m \in Range(nds) : m.selected}}
    \cup {c.id : c \in {m \in Range(nds) :
                          \E g \in Range(nds) :
                              g.selected /\ IsGroup(g) /\ m.parentNode = g.id}}

\* groupsToCompact in insertion order: parents, in collection order of their
\* first deleted child
groupsToCompact(nds, del) ==
    LET hit(i) == nds[i].id \in del /\ nds[i].parentNode # NoParent
                  /\ nds[i].parentNode \notin del
        firsts == SelectSeq([i \in 1..Len(nds) |-> i],
                            LAMBDA i : hit(i) /\ \A j \in 1..(i - 1) :
                                ~ (hit(j) /\ nds[j].parentNode = nds[i].parentNode))
    IN [k \in 1..Len(firsts) |-> nds[firsts[k]].parentNode]

\* the node collection handleDeleteSelected leaves: closure is the nodes of
\* the render the callback was made in (it decides what is selected), nds
\* the collection the setNodes updater is given
deletedNodes(closure, nds) ==
    IF \A n \in Range(closure) : ~ n.selected THEN nds
    ELSE LET del == nodeIdsToDelete(closure)
             kept == SelectSeq(nds, LAMBDA n : n.id \notin del)
         IN compactAll(nds, kept, groupsToCompact(nds, del))

\* the edge collection handleDeleteSelected leaves
deletedEdges(closure, eds) ==
    IF \A n \in Range(closure) : ~ n.selected
    THEN SelectSeq(eds, LAMBDA e : ~ e.selected)
    ELSE LET del == nodeIdsToDelete(closure)
         IN SelectSeq(eds, LAMBDA e :
                ~ e.selected /\ e.source \notin del /\ e.target \notin del)

deleteSelected ==
    /\ ops < MaxOps
    /\ ops' = ops + 1
    /\ nodes' = deletedNodes(nodes, nodes)
    /\ edges' = deletedEdges(nodes, edges)
    /\ last' = Op("delete")
    /\ UNCHANGED <<dragStartPosRef, yPosRef, nextId, timeoutPending, drag, auxVars>>

handleDeleteSelected ==
    /\ drag.phase = "idle"
    /\ deleteSelected

\* useFlowActions.deleteSelection
deleteSelection ==
    /\ drag.phase = "idle"
    /\ ops < MaxOps
    /\ ops' = ops + 1
    /\ nodes' = SelectSeq(nodes, LAMBDA n : ~ n.selected)
    /\ edges' = SelectSeq(edges, LAMBDA e : ~ e.selected)
    /\ last' = Op("deleteSelection")
    /\ UNCHANGED <<dragStartPosRef, yPosRef, nextId, timeoutPending, drag, auxVars>>

\* ------------------------------------------------- size report, layout
RECURSIVE layoutEach(_, _)
layoutEach(nds, groupIds) ==
    IF groupIds = <<>> THEN nds
    ELSE layoutEach(rearrangeGroup(nds, Head(groupIds)), Tail(groupIds))

runLayout(currentNodes) ==
    LET groupNodes == SelectSeq(currentNodes, IsGroup)
    IN layoutEach(currentNodes, [k \in 1..Len(groupNodes) |-> groupNodes[k].id])

\* every group is re-stacked after the update, not only the leaf's own
resizeUpdateAll(nds, nodeId, width, height) ==
    runLayout([i \in 1..Len(nds) |->
                  IF nds[i].id = nodeId
                  THEN [nds[i] EXCEPT !.styleW = width, !.styleH = height,
                                      !.height = height]
                  ELSE nds[i]])

\* the setNodes updater of handleNodeResize
resizeUpdate(nds, nodeId, width, height) ==
    LET found == IndexOf(nds, nodeId) # 0
        isGroup == found /\ IsGroup(NodeOf(nds, nodeId))
        newChildWidth == IF isGroup THEN Max(MIN_CHILD_WIDTH, width - PADDING_X) ELSE 0
        updatedNodes ==
            [i \in 1..Len(nds) |->
                LET n == nds[i]
                IN IF n.id = nodeId
                   THEN IF n.styleW = width /\ n.styleH = height THEN n
                        ELSE [n EXCEPT !.styleW = width, !.styleH = height,
                                       !.height = height]
                   ELSE IF isGroup /\ n.parentNode = nodeId
                   THEN [n EXCEPT !.styleW = newChildWidth]
                   ELSE n]
    IN IF ~ isGroup /\ found /\ NodeOf(nds, nodeId).parentNode # NoParent
       THEN rearrangeGroup(updatedNodes, NodeOf(nds, nodeId).parentNode)
       ELSE updatedNodes

\* what the DOM of a node measures: a leaf renders at its style width, a
\* group at its style size (or at its paddings while it has no height)
handleNodeResize(nodeId, width, height) ==
    /\ drag.phase = "idle"
    /\ ops < MaxOps
    /\ ops' = ops + 1
    /\ nodes' = resizeUpdate(nodes, nodeId, width, height)
    /\ timeoutPending' = TRUE
    /\ last' = [Op("resize") EXCEPT !.node = nodeId, !.height = height]
    /\ UNCHANGED <<edges, dragStartPosRef, yPosRef, nextId, drag, auxVars>>

leafReport ==
    \E n \in Range(nodes) : \E h \in ReportHeights :
        IsChat(n) /\ handleNodeResize(n.id, widthOr(n, DEFAULT_CHILD_WIDTH), h)

groupReport ==
    \E g \in Range(nodes) : \E w \in GroupWidths :
        IsGroup(g) /\ handleNodeResize(g.id, w,
                          IF g.styleH # Undef THEN g.styleH ELSE GROUP_AUTO_HEIGHT)

\* the debounce timer fires: one global layout pass
debouncedLayout ==
    /\ drag.phase = "idle"
    /\ ops < MaxOps
    /\ ops' = ops + 1
    /\ timeoutPending
    /\ nodes' = runLayout(nodes)
    /\ timeoutPending' = FALSE
    /\ last' = Op("runLayout")
    /\ UNCHANGED <<edges, dragStartPosRef, yPosRef, nextId, drag, auxVars>>

\* ------------------------------------------------------- 5. drag
handleNodeDragStart(id) ==
    /\ drag.phase = "idle"
    /\ ops < MaxOps
    /\ ops' = ops + 1
    /\ id \in Ids(nodes)
    /\ dragStartPosRef' =
           IF IsChat(NodeOf(nodes, id))
           THEN [set |-> TRUE, x |-> NodeOf(nodes, id).x, y |-> NodeOf(nodes, id).y]
           ELSE dragStartPosRef
    /\ drag' = [phase |-> "started", node |-> id, obj |-> NodeOf(nodes, id)]
    /\ last' = Op("edit")
    /\ UNCHANGED <<nodes, edges, yPosRef, nextId, timeoutPending, auxVars>>

\* the pointer moves: React Flow writes the dragged position into the
\* collection (onNodesChange of useNodesState)
onNodesChangePosition(d) ==
    /\ drag.phase = "started"
    /\ nodes' = [i \in 1..Len(nodes) |->
                   IF nodes[i].id = drag.node
                   THEN [nodes[i] EXCEPT !.x = @ + d[1], !.y = @ + d[2]]
                   ELSE nodes[i]]
    /\ drag' = [drag EXCEPT !.phase = "moved",
                             !.obj = [@ EXCEPT !.x = @ + d[1], !.y = @ + d[2]]]
    /\ last' = Op("edit")
    /\ UNCHANGED <<edges, dragStartPosRef, yPosRef, nextId, timeoutPending, ops, auxVars>>

\* twice the absolute center of the dragged leaf (twice, to stay in integers)
cursor2X(oldGroup, node) == 2 * (oldGroup.x + node.x) + widthOr(node, DEFAULT_CHILD_WIDTH)

cursor2Y(oldGroup, node) == 2 * (oldGroup.y + node.y) + getNodeHeight(node)

\* mutant of hitsGroup: the collision test takes every group at the default
\* size instead of its stored size
hitsGroupDefaultSize(n, c2x, c2y) ==
    /\ IsGroup(n)
    /\ c2x > 2 * n.x
    /\ c2x < 2 * (n.x + DEFAULT_GROUP_WIDTH)
    /\ c2y > 2 * n.y
    /\ c2y < 2 * (n.y + FALLBACK_GROUP_HEIGHT)

\* the collision test of one group against the center
hitsGroup(n, c2x, c2y) ==
    /\ IsGroup(n)
    /\ c2x > 2 * n.x
    /\ c2x < 2 * (n.x + widthOr(n, DEFAULT_GROUP_WIDTH))
    /\ c2y > 2 * n.y
    /\ c2y < 2 * (n.y + groupHeightOr300(n))

\* mutant of targetGroupIndex: the last group hit instead of the first
targetGroupIndexLast(nds, c2x, c2y) ==
    IF \E i \in 1..Len(nds) : hitsGroup(nds[i], c2x, c2y)
    THEN CHOOSE i \in 1..Len(nds) :
            hitsGroup(nds[i], c2x, c2y)
            /\ \A j \in (i + 1)..Len(nds) : ~ hitsGroup(nds[j], c2x, c2y)
    ELSE 0

\* nodes.find: index of the first group hit, 0 if none
targetGroupIndex(nds, c2x, c2y) ==
    IF \E i \in 1..Len(nds) : hitsGroup(nds[i], c2x, c2y)
    THEN CHOOSE i \in 1..Len(nds) :
            hitsGroup(nds[i], c2x, c2y) /\ \A j \in 1..(i - 1) : ~ hitsGroup(nds[j], c2x, c2y)
    ELSE 0

isOut(oldGroup, c2x, c2y) ==
    LET rel2X == c2x - 2 * oldGroup.x
        rel2Y == c2y - 2 * oldGroup.y
    IN \/ rel2X < 0
       \/ rel2X > 2 * widthOr(oldGroup, DEFAULT_GROUP_WIDTH)
       \/ rel2Y < 0
       \/ rel2Y > 2 * groupHeightOr300(oldGroup)

isClick(node, ref) ==
    /\ ref.set
    /\ Abs(node.x - ref.x) < CLICK_THRESHOLD
    /\ Abs(node.y - ref.y) < CLICK_THRESHOLD

\* the outcome of a release: action and target group id
classify(nds, node, ref) ==
    IF ~ IsChat(node) \/ node.parentNode = NoParent
    THEN [action |-> "NOOP", target |-> NoParent]
    ELSE IF isClick(node, ref)
    THEN [action |-> "CLICK", target |-> NoParent]
    ELSE IF IndexOf(nds, node.parentNode) = 0
    THEN [action |-> "STALE", target |-> NoParent]
    ELSE LET oldGroup == NodeOf(nds, node.parentNode)
             c2x == cursor2X(oldGroup, node)
             c2y == cursor2Y(oldGroup, node)
             t == targetGroupIndex(nds, c2x, c2y)
         IN IF t # 0 THEN [action |-> "MERGE", target |-> nds[t].id]
            ELSE IF isOut(oldGroup, c2x, c2y) THEN [action |-> "SPLIT", target |-> NoParent]
            ELSE [action |-> "SNAP", target |-> NoParent]

\* mutant of siblingsOf: the stale copy of the dragged node stays among the
\* children of its group
siblingsOfKeepDragged(nds, groupId, draggingNodeId) ==
    SelectSeq(nds, LAMBDA n : n.parentNode = groupId)

\* the children of a group other than the dragged node
siblingsOf(nds, groupId, draggingNodeId) ==
    SelectSeq(nds, LAMBDA n : n.parentNode = groupId /\ n.id # draggingNodeId)

\* mutant of compactGroup: the restacked children keep their isLast flags
compactGroupKeepLast(nds, groupId, draft, action, draggingNodeId) ==
    LET originalGroupNode == NodeOf(nds, groupId)
        others == siblingsOf(nds, groupId, draggingNodeId)
        siblings == IF draft.parentNode = groupId /\ action # "SPLIT"
                    THEN Append(others, draft) ELSE others
        currentGroupWidth == widthOr(originalGroupNode, DEFAULT_GROUP_WIDTH)
        currentChildWidth == currentGroupWidth - PADDING_X
        sorted == SortByY(siblings)
        newHeight == dragStackY(sorted, Len(sorted) + 1) - NODE_GAP + GROUP_PADDING_BOTTOM
        updatedGroup == [originalGroupNode EXCEPT !.styleH = newHeight,
                                                  !.styleW = currentGroupWidth]
        updatedSiblings ==
            [k \in 1..Len(sorted) |->
                [sorted[k] EXCEPT !.x = CHILD_X, !.y = dragStackY(sorted, k),
                                  !.styleW = currentChildWidth]]
    IN IF Len(siblings) = 0 THEN <<>> ELSE <<updatedGroup>> \o updatedSiblings

\* compactGroup: the rebuilt group followed by its re-stacked children, or
\* nothing when the group is left without children
compactGroup(nds, groupId, draft, action, draggingNodeId) ==
    LET originalGroupNode == NodeOf(nds, groupId)
        others == siblingsOf(nds, groupId, draggingNodeId)
        siblings == IF draft.parentNode = groupId /\ action # "SPLIT"
                    THEN Append(others, draft) ELSE others
        currentGroupWidth == widthOr(originalGroupNode, DEFAULT_GROUP_WIDTH)
        currentChildWidth == currentGroupWidth - PADDING_X
        sorted == SortByY(siblings)
        newHeight == dragStackY(sorted, Len(sorted) + 1) - NODE_GAP + GROUP_PADDING_BOTTOM
        updatedGroup == [originalGroupNode EXCEPT !.styleH = newHeight,
                                                  !.styleW = currentGroupWidth]
        updatedSiblings ==
            [k \in 1..Len(sorted) |->
                [sorted[k] EXCEPT !.x = CHILD_X, !.y = dragStackY(sorted, k),
                                  !.styleW = currentChildWidth,
                                  !.isLast = (k = Len(sorted))]]
    IN IF Len(siblings) = 0 THEN <<>> ELSE <<updatedGroup>> \o updatedSiblings

\* mutant of splitGroupHeight: the paddings of the new group are forgotten
splitGroupHeightBare(nodeH) == nodeH

\* the height of the group a SPLIT creates
splitGroupHeight(nodeH) ==
    GROUP_PADDING_TOP + nodeH + GROUP_PADDING_BOTTOM + SPLIT_EXTRA

collides(ex, tX, tY, newGroupH) ==
    /\ IsGroup(ex)
    /\ ~ (\/ tX + DEFAULT_GROUP_WIDTH < ex.x
          \/ tX > ex.x + widthOr(ex, DEFAULT_GROUP_WIDTH)
          \/ tY + newGroupH < ex.y
          \/ tY > ex.y + groupHeightOr300(ex))

\* the first group of the collection that the new group would touch (0: none)
firstCollision(nextNodes, tX, tY, newGroupH) ==
    IF \A i \in 1..Len(nextNodes) : ~ collides(nextNodes[i], tX, tY, newGroupH)
    THEN 0
    ELSE CHOOSE k \in 1..Len(nextNodes) :
             /\ collides(nextNodes[k], tX, tY, newGroupH)
             /\ \A j \in 1..(k - 1) : ~ collides(nextNodes[j], tX, tY, newGroupH)

\* the placement loop of SPLIT, while (collision && loop < cap), with the
\* cap on the passes and the margin of a nudge as parameters: the X it ends
\* with, the passes made, the flag of the last pass and the nudges in order
\* (the group collided with, the X before and the X after)
RECURSIVE nudgeRun(_, _, _, _, _, _, _, _, _)
nudgeRun(cap, margin, nextNodes, tX, tY, newGroupH, loop, collision, hits) ==
    IF ~ collision \/ loop >= cap
    THEN [tX |-> tX, loop |-> loop, collision |-> collision, hits |-> hits]
    ELSE LET i == firstCollision(nextNodes, tX, tY, newGroupH)
         IN IF i = 0
            THEN nudgeRun(cap, margin, nextNodes, tX, tY, newGroupH, loop + 1, FALSE, hits)
            ELSE nudgeRun(cap, margin, nextNodes,
                     nextNodes[i].x + widthOr(nextNodes[i], DEFAULT_GROUP_WIDTH) + margin,
                     tY, newGroupH, loop + 1, TRUE,
                     Append(hits, [group |-> nextNodes[i].id, from |-> tX,
                                   to |-> nextNodes[i].x
                                          + widthOr(nextNodes[i], DEFAULT_GROUP_WIDTH)
                                          + margin]))

\* mutant of nudgeLoop: the loop without its cap on the passes
nudgeLoopUncapped(nextNodes, tX, tY, newGroupH, loop, collision) ==
    nudgeRun(2 * MAX_NUDGE, SPLIT_MARGIN, nextNodes, tX, tY, newGroupH, loop, collision, <<>>)

\* mutant of nudgeLoop: a nudge moves the candidate to the right edge of the
\* group hit, without the margin
nudgeLoopNoMargin(nextNodes, tX, tY, newGroupH, loop, collision) ==
    nudgeRun(MAX_NUDGE, 0, nextNodes, tX, tY, newGroupH, loop, collision, <<>>)

\* the placement loop of SPLIT, while (collision && loop < 50), a nudge
\* going 30 past the right edge of the group hit
nudgeLoop(nextNodes, tX, tY, newGroupH, loop, collision) ==
    nudgeRun(MAX_NUDGE, SPLIT_MARGIN, nextNodes, tX, tY, newGroupH, loop, collision, <<>>)

\* the placement loop of SPLIT: at most MAX_NUDGE passes
nudge(nextNodes, tX, tY, newGroupH, loop) ==
    nudgeLoop(nextNodes, tX, tY, newGroupH, loop, TRUE).tX

\* the updater goes on whether or not the dragged node is still there
hasLatestNodeAlways(nds, draggingNodeId) == TRUE

\* nds.find(n => n.id === draggingNodeId) of the updater
hasLatestNode(nds, draggingNodeId) == IndexOf(nds, draggingNodeId) # 0

\* the setNodes updater of a MERGE or SPLIT release
dragUpdate(nds, node, c, newGroupId) ==
    LET draggingNodeId == node.id
        oldGroupId == node.parentNode
        oldGroup == NodeOf(nds, oldGroupId)
        absY == oldGroup.y + node.y
        dirty == {oldGroupId} \cup (IF c.target # NoParent THEN {c.target} ELSE {})
        kept == SelectSeq(nds, LAMBDA n :
                    /\ n.id \notin dirty
                    /\ ~ (n.parentNode # NoParent /\ n.parentNode \in dirty)
                    /\ n.id # draggingNodeId)
        draft0 == [node EXCEPT !.selected = TRUE]
        draft == IF c.action = "MERGE"
                 THEN [draft0 EXCEPT !.parentNode = c.target, !.x = CHILD_X,
                                     !.y = absY - NodeOf(nds, c.target).y]
                 ELSE draft0
        afterOld == kept \o compactGroup(nds, oldGroupId, draft, c.action, draggingNodeId)
        afterTarget ==
            IF c.action = "MERGE" /\ c.target # oldGroupId
            THEN afterOld \o compactGroup(nds, c.target, draft, c.action, draggingNodeId)
            ELSE afterOld
        nodeH == getNodeHeight(node)
        newGroupH == splitGroupHeight(nodeH)
        tX0 == oldGroup.x + node.x - CHILD_X
        tY == oldGroup.y + node.y - GROUP_PADDING_TOP
        tX == nudge(afterTarget, tX0, tY, newGroupH, 0)
        newGroup == [createGroup(newGroupId, tX, tY)
                        EXCEPT !.styleH = newGroupH, !.styleW = DEFAULT_GROUP_WIDTH]
        splitNode == [draft EXCEPT !.parentNode = newGroupId, !.x = CHILD_X,
                                   !.y = GROUP_PADDING_TOP,
                                   !.styleW = DEFAULT_CHILD_WIDTH, !.isLast = TRUE]
    IN IF ~ hasLatestNode(nds, draggingNodeId) THEN nds
       ELSE IF c.action = "SPLIT" THEN afterTarget \o <<newGroup, splitNode>>
       ELSE afterTarget

\* mutant of detachEdges: only the edges leaving the dragged node go
detachEdgesOutgoing(eds, draggingNodeId) ==
    SelectSeq(eds, LAMBDA e : e.source # draggingNodeId)

\* the setEdges updater of a release that is no same-group reorder
detachEdges(eds, draggingNodeId) ==
    SelectSeq(eds, LAMBDA e : e.source # draggingNodeId /\ e.target # draggingNodeId)

\* the passes the placement loop of a SPLIT release makes
splitPlacement(nds, node, c) ==
    LET oldGroupId == node.parentNode
        oldGroup == NodeOf(nds, oldGroupId)
        draft == [node EXCEPT !.selected = TRUE]
        kept == SelectSeq(nds, LAMBDA n :
                    /\ n.id # oldGroupId
                    /\ n.parentNode # oldGroupId
                    /\ n.id # node.id)
        afterOld == kept \o compactGroup(nds, oldGroupId, draft, c.action, node.id)
    IN nudgeLoop(afterOld, oldGroup.x + node.x - CHILD_X,
                 oldGroup.y + node.y - GROUP_PADDING_TOP,
                 splitGroupHeight(getNodeHeight(node)), 0, TRUE)

splitLoops(nds, node, c) == splitPlacement(nds, node, c).loop

\* the node collection a release leaves: untouched by a click or a stale
\* release, the leaf back at its pre-drag position by SNAP, the setNodes
\* updater of MERGE and SPLIT with the id drawn for a new group
releaseNodes(nds, node, ref, c, newGroupId) ==
    CASE c.action \in {"NOOP", "CLICK", "STALE"} -> nds
      [] c.action = "SNAP" ->
           IF ref.set
           THEN [i \in 1..Len(nds) |->
                   IF nds[i].id = node.id
                   THEN [nds[i] EXCEPT !.x = ref.x, !.y = ref.y]
                   ELSE nds[i]]
           ELSE nds
      [] OTHER -> dragUpdate(nds, node, c, newGroupId)

\* the edge collection a release leaves
releaseEdges(eds, node, c) ==
    IF c.action \in {"MERGE", "SPLIT"} /\ ~ (c.action = "MERGE" /\ c.target = node.parentNode)
    THEN detachEdges(eds, node.id)
    ELSE eds

handleNodeDragStop ==
    /\ drag.phase = "moved"
    /\ LET node == IF IndexOf(nodes, drag.node) # 0
                   THEN NodeOf(nodes, drag.node) ELSE drag.obj
           c == classify(nodes, node, dragStartPosRef)
       IN /\ nodes' = releaseNodes(nodes, node, dragStartPosRef, c, nextId)
          /\ edges' = releaseEdges(edges, node, c)
          /\ dragStartPosRef' =
                 IF c.action \in {"NOOP", "STALE"} THEN dragStartPosRef ELSE NullPos
          /\ nextId' = IF c.action = "SPLIT" THEN nextId + 1 ELSE nextId
          /\ last' = [Op("dragStop") EXCEPT
                          !.action = c.action, !.node = node.id,
                          !.target = c.target, !.from = node.parentNode,
                          !.detached = Len(edges) - Len(edges'),
                          !.loops = IF c.action = "SPLIT"
                                    THEN splitLoops(nodes, node, c) ELSE 0,
                          !.hits = IF c.action = "SPLIT"
                                   THEN splitPlacement(nodes, node, c).hits ELSE <<>>]
    /\ drag' = Idle
    /\ UNCHANGED <<yPosRef, timeoutPending, ops, auxVars>>

\* ------------------------------------------------------- specification
Next ==
    \/ handleNewConversation
    \/ \E n \in Range(nodes) : \E h \in Handles :
           IsChat(n) /\ handleHandleDoubleClick(n.id, h)
    \/ \E n \in Range(nodes) : IsChat(n) /\ n.isLast /\ handleExtend(n.id)
    \/ \E n \in Range(nodes) : selectNode(n.id)
    \/ \E e \in Range(edges) : selectEdge(e.id)
    \/ \E n \in Range(nodes) : \E t \in Ids(nodes) : IsChat(n) /\ onConnect(n.id, t)
    \/ handleDeleteSelected
    \/ deleteSelection
    \/ leafReport
    \/ groupReport
    \/ debouncedLayout
    \/ \E n \in Range(nodes) : handleNodeDragStart(n.id)
    \/ \E d \in DragDeltas : onNodesChangePosition(d)
    \/ handleNodeDragStop

Spec == Init /\ [][Next]_vars

\* ------------------------------------------- the layout functions alone
\* A second specification applies the pure layout functions to collections
\* drawn from bounded sets: one group with up to MaxKids children in any
\* arrangement (any order of y, ties included), and a bystander group with
\* one child.  Each drawn collection has one function applied to it once.
LayoutYs == {30, 195}

\* (style.height, measured height) of a child
LayoutHeights == {<<Undef, Undef>>, <<60, Undef>>, <<Undef, 100>>}

LayoutGroupHeights == {Undef, 300}

NewHeights == {60, 200}

layoutChild(id, py, hs, parentId) ==
    [createChat(id, CHILD_X, py, FALSE, parentId)
        EXCEPT !.styleW = DEFAULT_CHILD_WIDTH, !.styleH = hs[1], !.height = hs[2]]

layoutGroup(id, px, gh) ==
    [createGroup(id, px, 0) EXCEPT !.styleW = DEFAULT_GROUP_WIDTH, !.styleH = gh]

LayoutInputs ==
    UNION {
      { <<layoutGroup(1, 0, gh)>>
          \o [k \in 1..n |-> layoutChild(k + 1, ys[k], hs[k], 1)]
          \o <<layoutGroup(n + 2, 500, 300), layoutChild(n + 3, 45, <<Undef, Undef>>, n + 2)>>
        : ys \in [1..n -> LayoutYs], hs \in [1..n -> LayoutHeights],
          gh \in LayoutGroupHeights }
      : n \in 1..MaxKids }

LayoutInit ==
    /\ nodes \in LayoutInputs
    /\ edges = <<>>
    /\ dragStartPosRef = NullPos
    /\ yPosRef = INIT_Y
    /\ nextId = 1
    /\ timeoutPending = FALSE
    /\ drag = Idle
    /\ last = Op("init")
    /\ ops = 0
    /\ AuxIdle

applyRearrangeGroup(groupId) ==
    /\ ops = 0
    /\ ops' = 1
    /\ nodes' = rearrangeGroup(nodes, groupId)
    /\ last' = [Op("rearrangeGroup") EXCEPT !.node = groupId]
    /\ UNCHANGED <<edges, dragStartPosRef, yPosRef, nextId, timeoutPending, drag, auxVars>>

applyAdjustLayout(nodeId, newHeight) ==
    /\ ops = 0
    /\ ops' = 1
    /\ nodes' = adjustLayoutAfterResize(nodes, nodeId, newHeight)
    /\ last' = [Op("adjustLayout") EXCEPT !.node = nodeId, !.height = newHeight,
                                          !.prior = nodes]
    /\ UNCHANGED <<edges, dragStartPosRef, yPosRef, nextId, timeoutPending, drag, auxVars>>

applyAdjustLayoutInline(nodeId, newHeight) ==
    /\ ops = 0
    /\ ops' = 1
    /\ nodes' = adjustLayoutAfterResizeInline(nodes, nodeId, newHeight)
    /\ last' = [Op("adjustLayout") EXCEPT !.node = nodeId, !.height = newHeight,
                                          !.prior = nodes]
    /\ UNCHANGED <<edges, dragStartPosRef, yPosRef, nextId, timeoutPending, drag, auxVars>>

LayoutNext ==
    \/ \E g \in Ids(nodes) : IsGroup(NodeOf(nodes, g)) /\ applyRearrangeGroup(g)
    \/ \E n \in Ids(nodes) : \E h \in NewHeights :
           IsChat(NodeOf(nodes, n)) /\ applyAdjustLayout(n, h)
    \/ \E n \in Ids(nodes) : \E h \in NewHeights :
           IsChat(NodeOf(nodes, n)) /\ applyAdjustLayoutInline(n, h)

SpecLayout == LayoutInit /\ [][LayoutNext]_vars

\* =================================================================
\* The edge router (getCustomSmartPath) as a function of its call
\* =================================================================
STUB == 20

DEFAULT_RECT_WIDTH == 400

DEFAULT_RECT_HEIGHT == 200

LANE_PADDING == 25

LANE_MARGIN == 20

SKY_MARGIN == 30

HIT_PADDING == 10

BACKING_PENALTY == 5000

CROSSING_PENALTY == 20000

OVERLAP_PENALTY == 50

OVERLAP_MIN == 10

OVERLAP_TOLERANCE == 5

HASH_LANES == 10

NoEdge == 0

Pt(px, py) == [x |-> px, y |-> py]

Min(a, b) == IF a < b THEN a ELSE b

RECURSIVE SeqSum(_)
SeqSum(q) == IF q = <<>> THEN 0 ELSE Head(q) + SeqSum(Tail(q))

RECURSIVE Flatten(_)
Flatten(qq) == IF qq = <<>> THEN <<>> ELSE Head(qq) \o Flatten(Tail(qq))

getDirectionVector(pos) ==
    CASE pos = "Left" -> Pt(-1, 0)
      [] pos = "Right" -> Pt(1, 0)
      [] pos = "Top" -> Pt(0, -1)
      [] pos = "Bottom" -> Pt(0, 1)
      [] OTHER -> Pt(1, 0)

\* node.width ?? style.width ?? 400, node.height ?? style.height ?? 200
getNodeRect(node, padding) ==
    LET w == IF node.width # Undef THEN node.width
             ELSE IF node.styleW \notin {Undef, 0} THEN node.styleW
             ELSE DEFAULT_RECT_WIDTH
        h == IF node.height # Undef THEN node.height
             ELSE IF node.styleH \notin {Undef, 0} THEN node.styleH
             ELSE DEFAULT_RECT_HEIGHT
    IN [l |-> node.x - padding, r |-> node.x + w + padding,
        t |-> node.y - padding, b |-> node.y + h + padding]

isSegmentCrossingRect(p1, p2, rect) ==
    ~ (\/ Max(p1.x, p2.x) < rect.l
       \/ Min(p1.x, p2.x) > rect.r
       \/ Max(p1.y, p2.y) < rect.t
       \/ Min(p1.y, p2.y) > rect.b)

getSegmentOverlapLength(a1, a2, b1, b2) ==
    LET isAVert == a1.x = a2.x
        isBVert == b1.x = b2.x
    IN IF isAVert # isBVert THEN 0
       ELSE IF isAVert
       THEN IF Abs(a1.x - b1.x) > OVERLAP_TOLERANCE THEN 0
            ELSE Max(0, Min(Max(a1.y, a2.y), Max(b1.y, b2.y))
                        - Max(Min(a1.y, a2.y), Min(b1.y, b2.y)))
       ELSE IF Abs(a1.y - b1.y) > OVERLAP_TOLERANCE THEN 0
            ELSE Max(0, Min(Max(a1.x, a2.x), Max(b1.x, b2.x))
                        - Max(Min(a1.x, a2.x), Min(b1.x, b2.x)))

\* (Math.abs(deterministicHash(edgeId)) % 10) - 5, or 0 without an edge id;
\* c.hash is the absolute value of the hash of the edge id
laneHashOf(c) == IF c.edgeId = NoEdge THEN 0 ELSE (c.hash % HASH_LANES) - 5

safeTargetPos(c) ==
    IF c.targetPosition # "none" THEN c.targetPosition
    ELSE IF c.sourcePosition = "Right" THEN "Left" ELSE "Right"

pBufS(c) ==
    Pt(c.sourceX + getDirectionVector(c.sourcePosition).x * STUB,
       c.sourceY + getDirectionVector(c.sourcePosition).y * STUB)

pBufT(c) ==
    Pt(c.targetX + getDirectionVector(safeTargetPos(c)).x * STUB,
       c.targetY + getDirectionVector(safeTargetPos(c)).y * STUB)

\* the midlines; the calls drawn keep the sums even, so that the halves
\* are whole numbers
defaultMidX(c) == (pBufS(c).x + pBufT(c).x) \div 2 + laneHashOf(c)

defaultMidY(c) == (pBufS(c).y + pBufT(c).y) \div 2 + laneHashOf(c)

groupsOf(c) == SelectSeq(c.avoidanceNodes, IsGroup)

\* the groups whose X projection meets the span between the two stubs
inSpanX(c) ==
    SelectSeq(groupsOf(c), LAMBDA n :
        /\ getNodeRect(n, LANE_PADDING).r > Min(pBufS(c).x, pBufT(c).x)
        /\ getNodeRect(n, LANE_PADDING).l < Max(pBufS(c).x, pBufT(c).x))

xCandidates(c) ==
    LET gs == groupsOf(c)
        lanes(n) ==
            LET rect == getNodeRect(n, LANE_PADDING)
            IN IF /\ rect.b > Min(pBufS(c).y, pBufT(c).y)
                  /\ rect.t < Max(pBufS(c).y, pBufT(c).y)
                  /\ defaultMidX(c) > rect.l /\ defaultMidX(c) < rect.r
               THEN <<rect.l - LANE_MARGIN, rect.r + LANE_MARGIN>>
               ELSE <<>>
    IN <<defaultMidX(c)>> \o Flatten([k \in 1..Len(gs) |-> lanes(gs[k])])

yCandidates(c) ==
    LET hit == inSpanX(c)
        tops == {getNodeRect(hit[k], LANE_PADDING).t : k \in 1..Len(hit)}
        bottoms == {getNodeRect(hit[k], LANE_PADDING).b : k \in 1..Len(hit)}
        minTop == CHOOSE v \in tops : \A w \in tops : v <= w
        maxBottom == CHOOSE v \in bottoms : \A w \in bottoms : v >= w
    IN IF hit = <<>> THEN <<defaultMidY(c)>>
       ELSE <<defaultMidY(c), minTop - SKY_MARGIN, maxBottom + SKY_MARGIN>>

Candidate(type, c, a, b) ==
    [type |-> type,
     points |-> <<Pt(c.sourceX, c.sourceY), pBufS(c), a, b, pBufT(c),
                  Pt(c.targetX, c.targetY)>>]

routerCandidates(c) ==
    LET xs == xCandidates(c)
        ys == SelectSeq(yCandidates(c), LAMBDA my : my # defaultMidY(c))
        s == pBufS(c)
        t == pBufT(c)
        sDir == getDirectionVector(c.sourcePosition)
        tDir == getDirectionVector(safeTargetPos(c))
        detourS == s.x + sDir.x * (c.offset + laneHashOf(c))
        detourT == t.x + tDir.x * (c.offset + laneHashOf(c))
    IN [k \in 1..Len(xs) |-> Candidate("Direct", c, Pt(xs[k], s.y), Pt(xs[k], t.y))]
       \o <<Candidate("Vertical", c, Pt(s.x, defaultMidY(c)), Pt(t.x, defaultMidY(c)))>>
       \o [k \in 1..Len(ys) |-> Candidate("Skyline", c, Pt(s.x, ys[k]), Pt(t.x, ys[k]))]
       \o (IF c.sourcePosition \in {"Left", "Right"}
           THEN <<Candidate("Detour", c, Pt(detourS, s.y), Pt(detourS, t.y)),
                  Candidate("Detour", c, Pt(detourT, s.y), Pt(detourT, t.y))>>
           ELSE <<>>)

pathLength(pts) ==
    SeqSum([i \in 1..(Len(pts) - 1) |->
              Abs(pts[i].x - pts[i + 1].x) + Abs(pts[i].y - pts[i + 1].y)])

backingCost(c, pts) ==
    LET sDir == getDirectionVector(c.sourcePosition)
    IN IF Len(pts) > 3
          /\ sDir.x * (pts[3].x - pts[2].x) + sDir.y * (pts[3].y - pts[2].y) < 0
       THEN BACKING_PENALTY ELSE 0

nodeIntersections(c, pts) ==
    LET gs == groupsOf(c)
    IN Cardinality({<<i, k>> \in (1..(Len(pts) - 1)) \X (1..Len(gs)) :
           isSegmentCrossingRect(pts[i], pts[i + 1], getNodeRect(gs[k], HIT_PADDING))})

edgeOverlaps(c, pts) ==
    LET others == SelectSeq(c.existingEdges, LAMBDA e : e.id # c.edgeId)
        ofEdge(i, e) ==
            IF Len(e.waypoints) > 1
            THEN SeqSum([j \in 1..(Len(e.waypoints) - 1) |->
                     LET len == getSegmentOverlapLength(pts[i], pts[i + 1],
                                    e.waypoints[j], e.waypoints[j + 1])
                     IN IF len > OVERLAP_MIN THEN len ELSE 0])
            ELSE 0
    IN SeqSum([i \in 1..(Len(pts) - 1) |->
                  SeqSum([k \in 1..Len(others) |-> ofEdge(i, others[k])])])

candidateCost(c, pts) ==
    pathLength(pts) + backingCost(c, pts)
    + nodeIntersections(c, pts) * CROSSING_PENALTY
    + edgeOverlaps(c, pts) * OVERLAP_PENALTY

\* the last candidate of the least cost (<= in place of <)
getCustomSmartPathLastMin(c) ==
    LET cands == routerCandidates(c)
        cost(k) == candidateCost(c, cands[k].points)
        best == CHOOSE k \in 1..Len(cands) :
                    /\ \A j \in 1..Len(cands) : cost(k) <= cost(j)
                    /\ \A j \in (k + 1)..Len(cands) : cost(j) > cost(k)
    IN [index |-> best, type |-> cands[best].type, points |-> cands[best].points,
        cost |-> cost(best), crossings |-> nodeIntersections(c, cands[best].points)]

\* the first candidate of the least cost, with its cost
getCustomSmartPath(c) ==
    LET cands == routerCandidates(c)
        cost(k) == candidateCost(c, cands[k].points)
        best == CHOOSE k \in 1..Len(cands) :
                    /\ \A j \in 1..Len(cands) : cost(k) <= cost(j)
                    /\ \A j \in 1..(k - 1) : cost(j) > cost(k)
    IN [index |-> best, type |-> cands[best].type, points |-> cands[best].points,
        cost |-> cost(best), crossings |-> nodeIntersections(c, cands[best].points)]

\* -----------------------------------------------------------------
\* The router applied to drawn calls
\* -----------------------------------------------------------------
RouterNode(id, type, px, py, w, h) ==
    [id |-> id, type |-> type, x |-> px, y |-> py, width |-> w, height |-> h,
     styleW |-> Undef, styleH |-> Undef]

\* a group across the corridor, one of the height of a long conversation,
\* one far below the corridor, one without measured size, and a leaf
Blocker == RouterNode(1, "groupNode", 400, -100, 200, 200)

TallBlocker == RouterNode(1, "groupNode", 400, -10000, 200, 20000)

FarGroup == RouterNode(2, "groupNode", 300, 2000, 200, 200)

BareGroup == RouterNode(3, "groupNode", 400, -100, Undef, Undef)

Leaf == RouterNode(4, "chatNode", 400, -100, 200, 200)

AvoidanceSets ==
    {<<>>, <<Blocker>>, <<TallBlocker>>, <<Blocker, FarGroup>>, <<BareGroup>>, <<Leaf>>}

\* edges already routed above and below Blocker between the same anchors
SkyEdge ==
    [id |-> 8, waypoints |-> <<Pt(0, 0), Pt(20, 0), Pt(20, -155), Pt(980, -155),
                               Pt(980, 0), Pt(1000, 0)>>]

GroundEdge ==
    [id |-> 9, waypoints |-> <<Pt(0, 0), Pt(20, 0), Pt(20, 155), Pt(980, 155),
                               Pt(980, 0), Pt(1000, 0)>>]

OwnEdge == [id |-> 7, waypoints |-> <<Pt(0, 0), Pt(1000, 0)>>]

UnroutedEdge == [id |-> 6, waypoints |-> <<>>]

EdgeSets == {<<>>, <<SkyEdge>>, <<SkyEdge, GroundEdge>>, <<OwnEdge, UnroutedEdge>>}

RouterCalls ==
    {c \in [sourceX : {0}, sourceY : {0}, sourcePosition : {"Right", "Bottom"},
            targetX : {30, 40, 48, 50, 400, 1000}, targetY : {0, 200},
            targetPosition : {"Left", "none"},
            offset : {20, 30}, edgeId : {NoEdge, 7}, hash : 0..(HASH_LANES - 1),
            avoidanceNodes : AvoidanceSets, existingEdges : EdgeSets] :
        c.edgeId = NoEdge => c.hash = 0}

RouterInit ==
    /\ nodes = <<>>
    /\ edges = <<>>
    /\ dragStartPosRef = NullPos
    /\ yPosRef = INIT_Y
    /\ nextId = 1
    /\ timeoutPending = FALSE
    /\ drag = Idle
    /\ last = Op("init")
    /\ ops = 0
    /\ route \in {[phase |-> "call", call |-> c] : c \in RouterCalls}
    /\ timer = NoTimer
    /\ gesture = NoGesture

applyGetCustomSmartPath ==
    /\ route.phase = "call"
    /\ route' = [phase |-> "done", call |-> route.call,
                 best |-> getCustomSmartPath(route.call)]
    /\ UNCHANGED <<canvasVars, timer, gesture>>

RouterNext == applyGetCustomSmartPath

SpecRouter == RouterInit /\ [][RouterNext]_vars

\* =================================================================
\* The debounced layout pass in time
\* =================================================================
\* The clock counts milliseconds in steps of half the quiet window.  A
\* timeout callback runs when its delay has elapsed: while a timeout is
\* due, neither time nor another event gets ahead of it.
DEBOUNCE_WAIT == 100

MaxReports == 3

MaxTicks == 6

Tick == DEBOUNCE_WAIT \div 2

MaxTime == MaxTicks * Tick

\* an armed timeout is kept as it is, a new one only set when none is armed
debounceKeepFirst(deadline, now) ==
    IF deadline # Undef THEN deadline ELSE now + DEBOUNCE_WAIT

\* debounce: clearTimeout of the armed timeout, then setTimeout(func, wait)
debounce(deadline, now) == now + DEBOUNCE_WAIT

TimerInit ==
    [phase |-> "run", now |-> 0, deadline |-> Undef, lastReport |-> Undef,
     reports |-> 0, bursts |-> 0, burstSize |-> 0, runs |-> 0, ranAt |-> Undef]

Due == timer.deadline # Undef /\ timer.now >= timer.deadline

\* a report opens a burst unless it comes less than the quiet window after
\* the one before it
OpensBurst == timer.lastReport = Undef \/ timer.now - timer.lastReport >= DEBOUNCE_WAIT

DebounceInit ==
    /\ nodes = <<layoutGroup(1, 0, Undef),
                 layoutChild(2, 30, <<Undef, Undef>>, 1),
                 layoutChild(3, 200, <<60, Undef>>, 1)>>
    /\ edges = <<>>
    /\ dragStartPosRef = NullPos
    /\ yPosRef = INIT_Y
    /\ nextId = 4
    /\ timeoutPending = FALSE
    /\ drag = Idle
    /\ last = Op("init")
    /\ ops = 0
    /\ route = NoRoute
    /\ timer = TimerInit
    /\ gesture = NoGesture

\* handleNodeResize at the time of the clock
timedNodeResize(nodeId, width, height) ==
    /\ timer.phase = "run"
    /\ ~ Due
    /\ timer.reports < MaxReports
    /\ timer.now + DEBOUNCE_WAIT <= MaxTime
    /\ nodes' = resizeUpdate(nodes, nodeId, width, height)
    /\ timeoutPending' = TRUE
    /\ timer' = [timer EXCEPT !.deadline = debounce(timer.deadline, timer.now),
                              !.lastReport = timer.now,
                              !.reports = @ + 1,
                              !.bursts = IF OpensBurst THEN @ + 1 ELSE @,
                              !.burstSize = IF OpensBurst THEN 1 ELSE @ + 1]
    /\ last' = [Op("resize") EXCEPT !.node = nodeId, !.height = height]
    /\ UNCHANGED <<edges, dragStartPosRef, yPosRef, nextId, drag, ops, route, gesture>>

timedLeafReport ==
    \E n \in Range(nodes) : \E h \in ReportHeights :
        IsChat(n) /\ timedNodeResize(n.id, widthOr(n, DEFAULT_CHILD_WIDTH), h)

timedGroupReport ==
    \E g \in Range(nodes) : \E w \in GroupWidths :
        IsGroup(g) /\ timedNodeResize(g.id, w,
                          IF g.styleH # Undef THEN g.styleH ELSE GROUP_AUTO_HEIGHT)

\* the timeout callback: runLayout
timedLayout ==
    /\ timer.phase = "run"
    /\ Due
    /\ nodes' = runLayout(nodes)
    /\ timeoutPending' = FALSE
    /\ timer' = [timer EXCEPT !.deadline = Undef, !.runs = @ + 1, !.ranAt = timer.now]
    /\ last' = Op("runLayout")
    /\ UNCHANGED <<edges, dragStartPosRef, yPosRef, nextId, drag, ops, route, gesture>>

tick ==
    /\ timer.phase = "run"
    /\ ~ Due
    /\ timer.now < MaxTime
    /\ timer' = [timer EXCEPT !.now = @ + Tick]
    /\ UNCHANGED <<canvasVars, route, gesture>>

DebounceNext ==
    \/ timedLeafReport
    \/ timedGroupReport
    \/ timedLayout
    \/ tick

\* the clock advances and a due timeout is run
SpecDebounce ==
    /\ DebounceInit
    /\ [][DebounceNext]_vars
    /\ WF_vars(tick)
    /\ WF_vars(timedLayout)

\* =================================================================
\* Window listeners of the edge-segment drag and the label drag
\* =================================================================
MaxGestures == 3

Kinds == {"segment", "label"}

Buttons == {"left", "right"}

NoListener == 0

\* a registration on window: the handler pair of mouse-down number gid of a
\* component, one entry for mousemove and one for mouseup
Listener(kind, gid, type) == [kind |-> kind, gid |-> gid, type |-> type]

Pair(kind, gid) ==
    IF gid = NoListener THEN {}
    ELSE {Listener(kind, gid, "move"), Listener(kind, gid, "up")}

GestureInit ==
    [phase |-> "run",
     mounted |-> [k \in Kinds |-> TRUE],
     ref |-> [k \in Kinds |-> NoListener],
     window |-> {},
     holding |-> [b \in Buttons |-> "none"],
     nextGid |-> 1,
     moved |-> {},
     simplified |-> FALSE,
     overlapped |-> FALSE]

\* onMouseUp (EdgeVisuals) and handleUp (SmartLabel): remove the pair the
\* ref holds now, reset the ref; the segment handler then simplifies the
\* waypoints
upHandler(st, kind) ==
    [st EXCEPT !.window = @ \ Pair(kind, st.ref[kind]),
               !.ref[kind] = NoListener,
               !.simplified = IF kind = "segment" THEN TRUE ELSE @]

\* the dispatch of one mouseup event: the listeners registered when the
\* event is fired, in the order of registration; one that an earlier
\* listener has removed is not called
RECURSIVE dispatchUp(_, _)
dispatchUp(st, pending) ==
    IF pending = {} THEN st
    ELSE LET first == CHOOSE l \in pending : \A m \in pending : l.gid <= m.gid
         IN dispatchUp(IF first \in st.window THEN upHandler(st, first.kind) ELSE st,
                       pending \ {first})

\* the effect cleanup of either component: remove what the ref holds
cleanupRefOnly(st, kind) == [st EXCEPT !.window = @ \ Pair(kind, st.ref[kind])]

GestureDomInit ==
    /\ nodes = <<>>
    /\ edges = <<>>
    /\ dragStartPosRef = NullPos
    /\ yPosRef = INIT_Y
    /\ nextId = 1
    /\ timeoutPending = FALSE
    /\ drag = Idle
    /\ last = Op("init")
    /\ ops = 0
    /\ route = NoRoute
    /\ timer = NoTimer
    /\ gesture = GestureInit

\* handleSegmentMouseDown / SmartLabel.handleMouseDown with mouse button b
handleMouseDown(kind, b) ==
    /\ gesture.phase = "run"
    /\ gesture.mounted[kind]
    /\ gesture.holding[b] = "none"
    /\ gesture.nextGid <= MaxGestures
    /\ gesture' = [gesture EXCEPT !.ref[kind] = gesture.nextGid,
                                  !.window = @ \cup Pair(kind, gesture.nextGid),
                                  !.holding[b] = kind,
                                  !.nextGid = @ + 1,
                                  !.simplified = FALSE,
                                  !.overlapped = @ \/ gesture.ref[kind] # NoListener]
    /\ UNCHANGED <<canvasVars, route, timer>>

\* a mousemove on window: every registered move listener runs
windowMouseMove ==
    /\ gesture.phase = "run"
    /\ \E b \in Buttons : gesture.holding[b] # "none"
    /\ gesture' = [gesture EXCEPT
           !.moved = @ \cup {l.kind : l \in {m \in gesture.window : m.type = "move"}}]
    /\ UNCHANGED <<canvasVars, route, timer>>

\* the release of button b: a mouseup on window
windowMouseUp(b) ==
    /\ gesture.phase = "run"
    /\ gesture.holding[b] # "none"
    /\ gesture' = dispatchUp([gesture EXCEPT !.holding[b] = "none"],
                             {l \in gesture.window : l.type = "up"})
    /\ UNCHANGED <<canvasVars, route, timer>>

\* the component is unmounted: its effect cleanup runs
unmount(kind) ==
    /\ gesture.phase = "run"
    /\ gesture.mounted[kind]
    /\ gesture' = [cleanupRefOnly(gesture, kind) EXCEPT !.mounted[kind] = FALSE]
    /\ UNCHANGED <<canvasVars, route, timer>>

GestureNext ==
    \/ \E k \in Kinds : \E b \in Buttons : handleMouseDown(k, b)
    \/ windowMouseMove
    \/ \E b \in Buttons : windowMouseUp(b)
    \/ \E k \in Kinds : unmount(k)

SpecGesture == GestureDomInit /\ [][GestureNext]_vars

\* =================================================================
\* SPLIT releases over a row of groups
\* =================================================================
\* a row of up to MAX_NUDGE + 1 groups of the default size, each where the
\* nudge past its left neighbour lands, and a source group far to the
\* left whose first leaf is being dragged
ChainLengths == {0, 1, 2, MAX_NUDGE - 2, MAX_NUDGE - 1, MAX_NUDGE, MAX_NUDGE + 1}

ChainPitch == GROUP_WIDTH + SPLIT_MARGIN

ChainSourceX == 0 - 10 * GROUP_WIDTH

ChainReleaseXs == {0 - GROUP_WIDTH \div 2, CHILD_X, GROUP_WIDTH + CHILD_X}

ChainReleaseYs == {0 - 2 * DEFAULT_NODE_HEIGHT, 0 - DEFAULT_NODE_HEIGHT}

ChainLeafHeights == {Undef, 60, 200}

ChainNodes(len, px, py, h) ==
    <<[createGroup(1, ChainSourceX, 0) EXCEPT !.styleW = DEFAULT_GROUP_WIDTH],
      [createChat(2, px - ChainSourceX, py, FALSE, 1)
          EXCEPT !.styleW = DEFAULT_CHILD_WIDTH, !.styleH = h],
      [createChat(3, CHILD_X, 195, TRUE, 1) EXCEPT !.styleW = DEFAULT_CHILD_WIDTH]>>
    \o [k \in 1..len |-> createGroup(3 + k, (k - 1) * ChainPitch, 0)]

NudgeInit ==
    /\ \E len \in ChainLengths : \E px \in ChainReleaseXs : \E py \in ChainReleaseYs :
       \E h \in ChainLeafHeights :
           /\ nodes = ChainNodes(len, px, py, h)
           /\ nextId = 4 + len
    /\ edges = <<>>
    /\ dragStartPosRef = [set |-> TRUE, x |-> CHILD_X, y |-> GROUP_PADDING_TOP]
    /\ yPosRef = INIT_Y
    /\ timeoutPending = FALSE
    /\ drag = [phase |-> "moved", node |-> 2, obj |-> nodes[2]]
    /\ last = Op("edit")
    /\ ops = 0
    /\ AuxIdle

NudgeNext == handleNodeDragStop

SpecNudge == NudgeInit /\ [][NudgeNext]_vars

\* =================================================================
\* Callbacks that arrive after a deletion
\* =================================================================
\* two conversations, the first with a follow-up, two edges, and at most
\* one node selected
StaleCanvas(sel) ==
    [i \in 1..5 |->
        [<<[createGroup(1, INIT_X, INIT_Y) EXCEPT !.styleW = DEFAULT_GROUP_WIDTH],
           [createChat(2, CHILD_X, GROUP_PADDING_TOP, FALSE, 1)
               EXCEPT !.styleW = DEFAULT_CHILD_WIDTH],
           [createChat(3, CHILD_X, GROUP_PADDING_TOP + DEFAULT_NODE_HEIGHT + NODE_GAP, TRUE, 1)
               EXCEPT !.styleW = DEFAULT_CHILD_WIDTH],
           [createGroup(4, INIT_X, INIT_Y + OFFSET_Y) EXCEPT !.styleW = DEFAULT_GROUP_WIDTH],
           [createChat(5, CHILD_X, GROUP_PADDING_TOP, TRUE, 4)
               EXCEPT !.styleW = DEFAULT_CHILD_WIDTH]>>[i]
         EXCEPT !.selected = (i = sel)]]

StaleInit ==
    /\ \E sel \in 0..5 : nodes = StaleCanvas(sel)
    /\ edges = <<createEdge(6, 2, 3), createEdge(7, 3, 5)>>
    /\ dragStartPosRef = NullPos
    /\ yPosRef = INIT_Y + 2 * OFFSET_Y
    /\ nextId = 8
    /\ timeoutPending = FALSE
    /\ drag = Idle
    /\ last = Op("init")
    /\ ops = 0
    /\ AuxIdle

\* the ids of the nodes that are no longer in the collection (6 and 7 are
\* the ids of the edges)
StaleIds == (1..(nextId - 1)) \ (Ids(nodes) \cup {6, 7})

\* a drag into the group below and a drag out to the right
StaleDeltas == {<<0, 200>>, <<460, 0>>}

\* the Delete key while a node is being dragged
deleteWhileDragging ==
    /\ drag.phase # "idle"
    /\ deleteSelected

staleNodeResize ==
    \E id \in StaleIds : \E h \in ReportHeights :
        handleNodeResize(id, DEFAULT_CHILD_WIDTH, h)

\* handleExtend for a node that is not found: return
staleExtend ==
    \E id \in StaleIds :
        /\ drag.phase = "idle"
        /\ ops < MaxOps
        /\ ops' = ops + 1
        /\ IndexOf(nodes, id) = 0
        /\ last' = [Op("extend") EXCEPT !.node = id]
        /\ UNCHANGED <<nodes, edges, dragStartPosRef, yPosRef, nextId, timeoutPending,
                       drag, auxVars>>

\* rearrangeGroup for a group that is not in the collection
staleRearrangeGroup ==
    \E id \in StaleIds :
        /\ drag.phase = "idle"
        /\ ops < MaxOps
        /\ ops' = ops + 1
        /\ nodes' = rearrangeGroup(nodes, id)
        /\ last' = [Op("rearrangeGroup") EXCEPT !.node = id]
        /\ UNCHANGED <<edges, dragStartPosRef, yPosRef, nextId, timeoutPending,
                       drag, auxVars>>

StaleNext ==
    \/ \E n \in Range(nodes) : IsChat(n) /\ handleNodeDragStart(n.id)
    \/ \E d \in StaleDeltas : onNodesChangePosition(d)
    \/ handleDeleteSelected
    \/ deleteWhileDragging
    \/ handleNodeDragStop
    \/ staleNodeResize
    \/ staleExtend
    \/ staleRearrangeGroup

SpecStale == StaleInit /\ [][StaleNext]_vars

\* =================================================================
\* Path helpers on point lists with missing and non-finite points
\* =================================================================
\* A JavaScript number: a whole number, NaN, or an infinity (v is its sign)
Num(n) == [k |-> "num", v |-> n]

NaN == [k |-> "nan", v |-> 0]

PosInf == [k |-> "inf", v |-> 1]

NegInf == [k |-> "inf", v |-> -1]

\* a missing entry of a point list (null or undefined)
Missing == [k |-> "missing"]

isFinite(a) == a.k = "num"

isNaN(a) == a.k = "nan"

Sgn(n) == IF n > 0 THEN 1 ELSE IF n < 0 THEN -1 ELSE 0

XNeg(a) == IF a.k = "inf" THEN [a EXCEPT !.v = 0 - a.v]
           ELSE IF a.k = "num" THEN Num(0 - a.v) ELSE a

XAdd(a, b) ==
    IF isNaN(a) \/ isNaN(b) THEN NaN
    ELSE IF a.k = "inf" /\ b.k = "inf" THEN (IF a.v = b.v THEN a ELSE NaN)
    ELSE IF a.k = "inf" THEN a
    ELSE IF b.k = "inf" THEN b
    ELSE Num(a.v + b.v)

XSub(a, b) == XAdd(a, XNeg(b))

XAbs(a) == IF a.k = "inf" THEN PosInf ELSE IF a.k = "num" THEN Num(Abs(a.v)) ELSE a

XMul(a, b) ==
    IF isNaN(a) \/ isNaN(b) THEN NaN
    ELSE IF a.k = "inf" \/ b.k = "inf"
    THEN (IF Sgn(a.v) * Sgn(b.v) = 0 THEN NaN
          ELSE IF Sgn(a.v) * Sgn(b.v) > 0 THEN PosInf ELSE NegInf)
    ELSE Num(a.v * b.v)

\* the drawn coordinates keep the halves whole
XHalf(a) == IF a.k = "num" THEN Num(a.v \div 2) ELSE a

XSign(a) == IF isNaN(a) THEN NaN ELSE Num(Sgn(a.v))

\* a < b; false when either is NaN
XLt(a, b) ==
    IF isNaN(a) \/ isNaN(b) THEN FALSE
    ELSE IF a.k = "inf" THEN a.v < 0 /\ ~ (b.k = "inf" /\ b.v < 0)
    ELSE IF b.k = "inf" THEN b.v > 0
    ELSE a.v < b.v

\* a === b
XEq(a, b) == ~ isNaN(a) /\ ~ isNaN(b) /\ a = b

XLe(a, b) == XLt(a, b) \/ XEq(a, b)

\* Math.min
XMin(a, b) == IF isNaN(a) \/ isNaN(b) THEN NaN ELSE IF XLt(b, a) THEN b ELSE a

XPt(px, py) == [k |-> "point", x |-> px, y |-> py]

XDist(p, q) == XAdd(XAbs(XSub(p.x, q.x)), XAbs(XSub(p.y, q.y)))

BORDER_RADIUS == 8

Cmd(c, args) == [c |-> c, args |-> args]

\* pointsToPath; the path is kept as its list of commands, '' as <<>>
pointsToPath(points) ==
    LET validPoints == SelectSeq(points, LAMBDA p :
                           p # Missing /\ isFinite(p.x) /\ isFinite(p.y))
        n == Len(validPoints)
        corner(i) ==
            LET p0 == validPoints[i - 1]
                p1 == validPoints[i]
                p2 == validPoints[i + 1]
                effectiveRadius ==
                    XMin(Num(BORDER_RADIUS),
                         XMin(XHalf(XDist(p1, p0)), XHalf(XDist(p2, p1))))
                v0x == XSign(XSub(p1.x, p0.x))
                v0y == XSign(XSub(p1.y, p0.y))
                v1x == XSign(XSub(p2.x, p1.x))
                v1y == XSign(XSub(p2.y, p1.y))
            IN IF XLe(effectiveRadius, Num(0))
               THEN <<Cmd("L", <<p1.x, p1.y>>)>>
               ELSE <<Cmd("L", <<XSub(p1.x, XMul(v0x, effectiveRadius)),
                                 XSub(p1.y, XMul(v0y, effectiveRadius))>>),
                      Cmd("Q", <<p1.x, p1.y,
                                 XAdd(p1.x, XMul(v1x, effectiveRadius)),
                                 XAdd(p1.y, XMul(v1y, effectiveRadius))>>)>>
    IN IF Len(points) < 2 \/ n < 2 THEN <<>>
       ELSE <<Cmd("M", <<validPoints[1].x, validPoints[1].y>>)>>
            \o Flatten([i \in 1..(n - 2) |-> corner(i + 1)])
            \o <<Cmd("L", <<validPoints[n].x, validPoints[n].y>>)>>

\* the index of the first longest segment (len > maxLen, from maxLen = 0)
RECURSIVE longestSegment(_, _, _, _)
longestSegment(validPoints, i, maxLen, maxIdx) ==
    IF i > Len(validPoints) - 1 THEN maxIdx
    ELSE LET len == XDist(validPoints[i], validPoints[i + 1])
         IN IF XLt(maxLen, len)
            THEN longestSegment(validPoints, i + 1, len, i)
            ELSE longestSegment(validPoints, i + 1, maxLen, maxIdx)

\* p && Number.isFinite(p.x)
labelFilter(p) == p # Missing /\ isFinite(p.x)

getLabelPositionFromPoints(points) ==
    LET validPoints == SelectSeq(points, labelFilter)
        maxIdx == longestSegment(validPoints, 1, Num(0), 1)
        p1 == validPoints[maxIdx]
        p2 == validPoints[maxIdx + 1]
    IN IF Len(points) < 2 \/ Len(validPoints) < 2 THEN <<Num(0), Num(0)>>
       ELSE <<XHalf(XAdd(p1.x, p2.x)), XHalf(XAdd(p1.y, p2.y))>>

\* the snapping pass: a coordinate less than 1 from the one before takes it
RECURSIVE snapPoints(_, _)
snapPoints(done, rest) ==
    IF rest = <<>> THEN done
    ELSE LET prev == done[Len(done)]
             curr == Head(rest)
             cx == IF XLt(XAbs(XSub(curr.x, prev.x)), Num(1)) THEN prev.x ELSE curr.x
             cy == IF XLt(XAbs(XSub(curr.y, prev.y)), Num(1)) THEN prev.y ELSE curr.y
         IN snapPoints(Append(done, XPt(cx, cy)), Tail(rest))

\* the pass that drops zero-length steps
RECURSIVE uniquePoints(_, _, _)
uniquePoints(unique, snapped, i) ==
    IF i > Len(snapped) THEN unique
    ELSE LET prev == unique[Len(unique)]
             curr == snapped[i]
         IN IF \/ XLt(Num(0), XAbs(XSub(curr.x, prev.x)))
               \/ XLt(Num(0), XAbs(XSub(curr.y, prev.y)))
            THEN uniquePoints(Append(unique, curr), snapped, i + 1)
            ELSE IF i = Len(snapped)
            THEN uniquePoints([unique EXCEPT ![Len(unique)] = curr], snapped, i + 1)
            ELSE uniquePoints(unique, snapped, i + 1)

\* the pass that merges collinear steps
RECURSIVE mergePoints(_, _, _)
mergePoints(merged, unique, i) ==
    IF i > Len(unique) - 1 THEN merged
    ELSE LET prev == merged[Len(merged)]
             curr == unique[i]
             next == unique[i + 1]
             isH == XEq(prev.y, curr.y) /\ XEq(curr.y, next.y)
             isV == XEq(prev.x, curr.x) /\ XEq(curr.x, next.x)
         IN IF isH \/ isV THEN mergePoints(merged, unique, i + 1)
            ELSE mergePoints(Append(merged, curr), unique, i + 1)

\* typeof p.x === 'number' && !isNaN(p.x), and the same for p.y
simplifyFilter(p) == p # Missing /\ ~ isNaN(p.x) /\ ~ isNaN(p.y)

simplifyOrthogonalPoints(points) ==
    LET validPoints == SelectSeq(points, simplifyFilter)
        snapped == snapPoints(<<validPoints[1]>>, Tail(validPoints))
        unique == uniquePoints(<<snapped[1]>>, snapped, 2)
    IN IF Len(validPoints) < 2 THEN validPoints
       ELSE IF Len(unique) < 2 THEN validPoints
       ELSE Append(mergePoints(<<unique[1]>>, unique, 2), unique[Len(unique)])

\* -----------------------------------------------------------------
\* The path helpers applied to drawn point lists
\* -----------------------------------------------------------------
MaxPoints == 3

Coordinates == {Num(0), Num(10), NaN, PosInf}

PointEntries == {XPt(px, py) : px \in Coordinates, py \in Coordinates} \cup {Missing}

PointLists == UNION {[1..n -> PointEntries] : n \in 0..MaxPoints}

PathInit ==
    /\ nodes = <<>>
    /\ edges = <<>>
    /\ dragStartPosRef = NullPos
    /\ yPosRef = INIT_Y
    /\ nextId = 1
    /\ timeoutPending = FALSE
    /\ drag = Idle
    /\ last = Op("init")
    /\ ops = 0
    /\ route \in {[phase |-> "points", points |-> pts] : pts \in PointLists}
    /\ timer = NoTimer
    /\ gesture = NoGesture

applyPointsToPath ==
    /\ route.phase = "points"
    /\ route' = [phase |-> "path", points |-> route.points,
                 result |-> pointsToPath(route.points)]
    /\ UNCHANGED <<canvasVars, timer, gesture>>

applyGetLabelPosition ==
    /\ route.phase = "points"
    /\ route' = [phase |-> "label", points |-> route.points,
                 result |-> getLabelPositionFromPoints(route.points)]
    /\ UNCHANGED <<canvasVars, timer, gesture>>

applySimplify ==
    /\ route.phase = "points"
    /\ route' = [phase |-> "simplified", points |-> route.points,
                 result |-> simplifyOrthogonalPoints(route.points)]
    /\ UNCHANGED <<canvasVars, timer, gesture>>

PathNext ==
    \/ applyPointsToPath
    \/ applyGetLabelPosition
    \/ applySimplify

SpecPath == PathInit /\ [][PathNext]_vars

\* -----------------------------------------------------------------
\* Two releases from the same inputs
\* -----------------------------------------------------------------
\* the ids one call of uuidv4() may return, out of a pool of MaxUuids ids
\* that no node or edge carries
MaxUuids == 3

\* mutant of uuidv4: the generator may return an id that a node carries
uuidv4Colliding == nextId..(nextId + MaxUuids - 1) \cup Ids(nodes)

uuidv4 == nextId..(nextId + MaxUuids - 1)

\* the X and Y at which the dragged leaf is released, relative to its group
ReleaseXs == {0 - 600, 0 - 300, 0 - 180, CHILD_X, CHILD_X + 2, 240, 480}

ReleaseYs == {0 - 400, GROUP_PADDING_TOP + 2, 100,
              GROUP_PADDING_TOP + DEFAULT_NODE_HEIGHT + NODE_GAP + 2}

\* two groups side by side, the first with two leaves, and three edges
ReleaseCanvas ==
    <<[createGroup(1, 0, 0) EXCEPT !.styleW = DEFAULT_GROUP_WIDTH, !.styleH = 360],
      [createChat(2, CHILD_X, GROUP_PADDING_TOP, FALSE, 1)
          EXCEPT !.styleW = DEFAULT_CHILD_WIDTH],
      [createChat(3, CHILD_X, GROUP_PADDING_TOP + DEFAULT_NODE_HEIGHT + NODE_GAP, TRUE, 1)
          EXCEPT !.styleW = DEFAULT_CHILD_WIDTH],
      [createGroup(4, GROUP_WIDTH + 60, 0)
          EXCEPT !.styleW = DEFAULT_GROUP_WIDTH, !.styleH = 195],
      [createChat(5, CHILD_X, GROUP_PADDING_TOP, TRUE, 4)
          EXCEPT !.styleW = DEFAULT_CHILD_WIDTH]>>

\* a leaf of the first group has been dragged to a release point
ReleaseInit ==
    /\ \E id \in {2, 3} : \E px \in ReleaseXs : \E py \in ReleaseYs :
           /\ nodes = [i \in 1..5 |->
                         IF ReleaseCanvas[i].id = id
                         THEN [ReleaseCanvas[i] EXCEPT !.x = px, !.y = py]
                         ELSE ReleaseCanvas[i]]
           /\ dragStartPosRef = [set |-> TRUE, x |-> NodeOf(ReleaseCanvas, id).x,
                                 y |-> NodeOf(ReleaseCanvas, id).y]
           /\ drag = [phase |-> "moved", node |-> id, obj |-> NodeOf(nodes, id)]
    /\ edges = <<createEdge(6, 2, 3), createEdge(7, 2, 5), createEdge(8, 5, 3)>>
    /\ yPosRef = INIT_Y
    /\ nextId = 9
    /\ timeoutPending = FALSE
    /\ last = Op("init")
    /\ ops = 0
    /\ AuxIdle

\* handleNodeDragStop run twice on the same node, positions and collections,
\* each run drawing its own id from uuidv4() when it makes a group: the
\* first run's result is the canvas, the second run's is kept beside it
releaseTwice ==
    /\ drag.phase = "moved"
    /\ route = NoRoute
    /\ \E idA \in uuidv4 : \E idB \in uuidv4 :
         LET node == NodeOf(nodes, drag.node)
             c == classify(nodes, node, dragStartPosRef)
             twin == classify(nodes, node, dragStartPosRef)
         IN /\ nodes' = releaseNodes(nodes, node, dragStartPosRef, c, idA)
            /\ edges' = releaseEdges(edges, node, c)
            /\ route' = [phase |-> "twin",
                         ids |-> IF c.action = "SPLIT" THEN <<idA, idB>> ELSE <<>>,
                         action |-> twin.action,
                         nodes |-> releaseNodes(nodes, node, dragStartPosRef, twin, idB),
                         edges |-> releaseEdges(edges, node, twin)]
            /\ dragStartPosRef' =
                   IF c.action \in {"NOOP", "STALE"} THEN dragStartPosRef ELSE NullPos
            /\ last' = [Op("dragStop") EXCEPT
                            !.action = c.action, !.node = node.id,
                            !.target = c.target, !.from = node.parentNode,
                            !.detached = Len(edges) - Len(edges')]
    /\ nextId' = nextId + MaxUuids
    /\ drag' = Idle
    /\ UNCHANGED <<yPosRef, timeoutPending, ops, timer, gesture>>

ReleaseNext == releaseTwice

SpecRelease == ReleaseInit /\ [][ReleaseNext]_vars

\* -----------------------------------------------------------------
\* The layout functions on objects
\* -----------------------------------------------------------------
\* The heap is the sequence of the objects allocated so far, an object's
\* address its index: a node object refers to its position object and its
\* style object, an array object holds the addresses of its elements.  A
\* spread ({...o}) allocates, an assignment through a reference writes.
toHeap(nds) ==
    [a \in 1..(3 * Len(nds) + 1) |->
        IF a = 3 * Len(nds) + 1
        THEN [kind |-> "array", items |-> [i \in 1..Len(nds) |-> 3 * i]]
        ELSE LET n == nds[(a + 2) \div 3]
             IN CASE a % 3 = 1 -> [kind |-> "position", x |-> n.x, y |-> n.y]
                  [] a % 3 = 2 -> [kind |-> "style", width |-> n.styleW, height |-> n.styleH]
                  [] OTHER -> [kind |-> "node", id |-> n.id, type |-> n.type,
                               parentNode |-> n.parentNode, height |-> n.height,
                               selected |-> n.selected, isLast |-> n.isLast,
                               position |-> a - 2, style |-> a - 1]]

\* the node at address a as the layout reads it
viewNode(heap, a) ==
    LET n == heap[a]
    IN [id |-> n.id, type |-> n.type, x |-> heap[n.position].x, y |-> heap[n.position].y,
        parentNode |-> n.parentNode, styleW |-> heap[n.style].width,
        styleH |-> heap[n.style].height, height |-> n.height,
        selected |-> n.selected, isLast |-> n.isLast]

viewItems(heap, items) == [i \in 1..Len(items) |-> viewNode(heap, items[i])]

\* mutant of spreadDeep: { ...n }, the copy shares the style and the position
\* of the node
spreadShallow(heap, a) == Append(heap, heap[a])

\* { ...n, style: { ...n.style }, position: { ...n.position } }: the copy is
\* the last object of the heap returned
spreadDeep(heap, a) ==
    LET n == heap[a]
        withStyle == Append(heap, heap[n.style])
        withPosition == Append(withStyle, heap[n.position])
    IN Append(withPosition, [n EXCEPT !.style = Len(heap) + 1, !.position = Len(heap) + 2])

\* { ...n, style: { ...n.style, height }, height }: the position is shared
spreadStyle(heap, a, height) ==
    LET n == heap[a]
        withStyle == Append(heap, [heap[n.style] EXCEPT !.height = height])
    IN Append(withStyle, [n EXCEPT !.style = Len(heap) + 1, !.height = height])

\* { ...node, position: { ...node.position, y } }: the style is shared
spreadPosition(heap, a, y) ==
    LET n == heap[a]
        withPosition == Append(heap, [heap[n.position] EXCEPT !.y = y])
    IN Append(withPosition, [n EXCEPT !.position = Len(heap) + 1])

\* items.find(n => n.id === id): the address of the first match, 0 if none
findById(heap, items, id) ==
    IF \E i \in 1..Len(items) : heap[items[i]].id = id
    THEN items[CHOOSE i \in 1..Len(items) :
                   /\ heap[items[i]].id = id
                   /\ \A j \in 1..(i - 1) : heap[items[j]].id # id]
    ELSE 0

\* siblings.sort((a, b) => a.position.y - b.position.y) on addresses
sortItems(heap, items) ==
    LET keyed == [i \in 1..Len(items) |->
                     [y |-> heap[heap[items[i]].position].y, addr |-> items[i]]]
        sorted == SortByY(keyed)
    IN [i \in 1..Len(sorted) |-> sorted[i].addr]

\* rearrangeGroup's allNodes.map: a new object for every child and for the
\* group, the same object for every other node
RECURSIVE mapRearrange(_, _, _, _, _, _)
mapRearrange(heap, items, out, sorted, groupId, newGroupHeight) ==
    IF items = <<>> THEN [heap |-> heap, items |-> out]
    ELSE LET a == Head(items)
             view == viewItems(heap, sorted)
             next ==
                 IF heap[a].id \in Ids(view)
                 THEN spreadPosition(heap, a,
                          layoutStackY(view, IndexOf(view, heap[a].id)))
                 ELSE IF heap[a].id = groupId
                 THEN spreadStyle(heap, a, newGroupHeight)
                 ELSE heap
             addr == IF next = heap THEN a ELSE Len(next)
         IN mapRearrange(next, Tail(items), Append(out, addr), sorted, groupId,
                         newGroupHeight)

\* rearrangeGroup (MainLayout.tsx) on the array at address arr: the heap it
\* leaves and the address of the array it returns
heapRearrangeGroup(heap, arr, groupId) ==
    LET allNodes == heap[arr].items
        siblings == SelectSeq(allNodes, LAMBDA a : heap[a].parentNode = groupId)
        filtered == Append(heap, [kind |-> "array", items |-> siblings])
        groupNode == findById(heap, allNodes, groupId)
        sortedHeap == [filtered EXCEPT ![Len(filtered)].items = sortItems(filtered, @)]
        sorted == sortedHeap[Len(filtered)].items
        view == viewItems(sortedHeap, sorted)
        currentY == layoutStackY(view, Len(view) + 1)
        newGroupHeight ==
            Max(currentY - NODE_GAP + GROUP_PADDING_BOTTOM, MIN_GROUP_HEIGHT)
        mapped == mapRearrange(sortedHeap, allNodes, <<>>, sorted, groupId, newGroupHeight)
        final == Append(mapped.heap, [kind |-> "array", items |-> mapped.items])
    IN IF groupNode = 0 \/ Len(siblings) = 0
       THEN [heap |-> filtered, result |-> arr]
       ELSE [heap |-> final, result |-> Len(final)]

\* adjustLayoutAfterResize's nodes.map (MainLayout.tsx)
RECURSIVE mapAdjust(_, _, _, _, _)
mapAdjust(heap, items, out, nodeId, newHeight) ==
    IF items = <<>> THEN [heap |-> heap, items |-> out]
    ELSE LET a == Head(items)
             next == IF heap[a].id = nodeId
                     THEN spreadStyle(heap, a, newHeight)
                     ELSE spreadDeep(heap, a)
         IN mapAdjust(next, Tail(items), Append(out, Len(next)), nodeId, newHeight)

\* adjustLayoutAfterResize (MainLayout.tsx) on the array at address arr
heapAdjustLayout(heap, arr, nodeId, newHeight) ==
    LET mapped == mapAdjust(heap, heap[arr].items, <<>>, nodeId, newHeight)
        copied == Append(mapped.heap, [kind |-> "array", items |-> mapped.items])
        nextNodes == Len(copied)
        targetNode == findById(copied, mapped.items, nodeId)
    IN IF targetNode = 0 THEN [heap |-> copied, result |-> nextNodes]
       ELSE IF copied[targetNode].parentNode = NoParent
       THEN [heap |-> copied, result |-> nextNodes]
       ELSE heapRearrangeGroup(copied, nextNodes, copied[targetNode].parentNode)

\* adjustLayoutAfterResize's nodes.map (utils/layoutUtils.ts)
RECURSIVE mapCopy(_, _, _)
mapCopy(heap, items, out) ==
    IF items = <<>> THEN [heap |-> heap, items |-> out]
    ELSE LET next == spreadDeep(heap, Head(items))
         IN mapCopy(next, Tail(items), Append(out, Len(next)))

\* siblings.forEach(node => { node.position.y = currentY; ... }): the writes
\* go to the position objects the siblings refer to
RECURSIVE stackWrite(_, _, _, _)
stackWrite(heap, sorted, k, currentY) ==
    IF k > Len(sorted) THEN [heap |-> heap, currentY |-> currentY]
    ELSE LET written == [heap EXCEPT ![heap[sorted[k]].position].y = currentY]
         IN stackWrite(written, sorted, k + 1,
                       currentY + layoutNodeHeight(viewNode(written, sorted[k])) + NODE_GAP)

\* adjustLayoutAfterResize (utils/layoutUtils.ts) on the array at address arr
heapAdjustLayoutInline(heap, arr, nodeId, newHeight) ==
    LET mapped == mapCopy(heap, heap[arr].items, <<>>)
        copied == Append(mapped.heap, [kind |-> "array", items |-> mapped.items])
        nextNodes == Len(copied)
        targetNode == findById(copied, mapped.items, nodeId)
        styled == [copied EXCEPT ![copied[targetNode].style].height = newHeight]
        resized == [styled EXCEPT ![targetNode].height = newHeight]
        groupId == resized[targetNode].parentNode
        groupNode == findById(resized, mapped.items, groupId)
        siblings == SelectSeq(mapped.items, LAMBDA a : resized[a].parentNode = groupId)
        filtered == Append(resized, [kind |-> "array", items |-> siblings])
        sortedHeap == [filtered EXCEPT ![Len(filtered)].items = sortItems(filtered, @)]
        stacked == stackWrite(sortedHeap, sortedHeap[Len(filtered)].items, 1,
                              GROUP_PADDING_TOP)
        newGroupHeight == stacked.currentY - NODE_GAP + GROUP_PADDING_BOTTOM
        grouped == [stacked.heap EXCEPT
                       ![stacked.heap[groupNode].style].height =
                           Max(newGroupHeight, MIN_GROUP_HEIGHT)]
        final == [grouped EXCEPT ![groupNode].height = Max(newGroupHeight, MIN_GROUP_HEIGHT)]
    IN IF targetNode = 0 THEN [heap |-> copied, result |-> arr]
       ELSE IF groupId = NoParent THEN [heap |-> resized, result |-> nextNodes]
       ELSE IF groupNode = 0 THEN [heap |-> resized, result |-> nextNodes]
       ELSE [heap |-> final, result |-> nextNodes]

\* a layout function called on the objects of the collection: the heap
\* before the call, the heap after it, the array passed and the array
\* returned
called(name, arg, height, r) ==
    /\ ops = 0
    /\ ops' = 1
    /\ route = NoRoute
    /\ route' = [phase |-> "heap", before |-> toHeap(nodes), after |-> r.heap,
                 input |-> Len(toHeap(nodes)), result |-> r.result]
    /\ nodes' = viewItems(r.heap, r.heap[r.result].items)
    /\ last' = [Op(name) EXCEPT !.node = arg, !.height = height, !.prior = nodes]
    /\ UNCHANGED <<edges, dragStartPosRef, yPosRef, nextId, timeoutPending, drag,
                   timer, gesture>>

callRearrangeGroup(groupId) ==
    called("rearrangeGroup", groupId, Undef,
           heapRearrangeGroup(toHeap(nodes), Len(toHeap(nodes)), groupId))

callAdjustLayout(nodeId, newHeight) ==
    called("adjustLayout", nodeId, newHeight,
           heapAdjustLayout(toHeap(nodes), Len(toHeap(nodes)), nodeId, newHeight))

callAdjustLayoutInline(nodeId, newHeight) ==
    called("adjustLayoutInline", nodeId, newHeight,
           heapAdjustLayoutInline(toHeap(nodes), Len(toHeap(nodes)), nodeId, newHeight))

HeapNext ==
    \/ \E g \in Ids(nodes) : IsGroup(NodeOf(nodes, g)) /\ callRearrangeGroup(g)
    \/ \E n \in Ids(nodes) : \E h \in NewHeights :
           IsChat(NodeOf(nodes, n)) /\ callAdjustLayout(n, h)
    \/ \E n \in Ids(nodes) : \E h \in NewHeights :
           IsChat(NodeOf(nodes, n)) /\ callAdjustLayoutInline(n, h)

SpecHeap == LayoutInit /\ [][HeapNext]_vars

\* -----------------------------------------------------------------
\* Delete from the context menu
\* -----------------------------------------------------------------
\* onNodeContextMenu: a right click on a node opens the menu for it
onNodeContextMenu(nodeId) ==
    /\ route.phase \in {"none", "menu"}
    /\ nodeId \in Ids(nodes)
    /\ route' = [phase |-> "menu", nodeId |-> nodeId]
    /\ UNCHANGED <<canvasVars, timer, gesture>>

\* onPaneClick closes the menu
onPaneClick ==
    /\ route.phase = "menu"
    /\ route' = NoRoute
    /\ UNCHANGED <<canvasVars, timer, gesture>>

\* handleDeleteFromMenu: the right-clicked node becomes the only selected
\* node and a timeout of 0 ms is set; its callback holds the interactions of
\* the render in which the menu was clicked, made from that render's nodes
handleDeleteFromMenu ==
    /\ route.phase = "menu"
    /\ nodes' = [i \in 1..Len(nodes) |->
                    [nodes[i] EXCEPT !.selected = (nodes[i].id = route.nodeId)]]
    /\ route' = [phase |-> "deferred", nodeId |-> route.nodeId, closure |-> nodes]
    /\ last' = [Op("menuDelete") EXCEPT !.node = route.nodeId]
    /\ UNCHANGED <<edges, dragStartPosRef, yPosRef, nextId, timeoutPending, drag, ops,
                   timer, gesture>>

\* the timeout fires: interactions.handleDeleteSelected() of the render in
\* which the menu was clicked, then setMenu(null)
deferredDelete ==
    /\ route.phase = "deferred"
    /\ nodes' = deletedNodes(route.closure, nodes)
    /\ edges' = deletedEdges(route.closure, edges)
    /\ route' = [phase |-> "deleted", nodeId |-> route.nodeId, closure |-> route.closure]
    /\ last' = [Op("delete") EXCEPT !.node = route.nodeId, !.prior = route.closure]
    /\ UNCHANGED <<dragStartPosRef, yPosRef, nextId, timeoutPending, drag, ops,
                   timer, gesture>>

MenuNext ==
    \/ \E n \in Range(nodes) : route = NoRoute /\ selectNode(n.id)
    \/ \E e \in Range(edges) : route = NoRoute /\ selectEdge(e.id)
    \/ \E n \in Range(nodes) : onNodeContextMenu(n.id)
    \/ onPaneClick
    \/ handleDeleteFromMenu
    \/ deferredDelete

SpecMenu == StaleInit /\ [][MenuNext]_vars

\* -----------------------------------------------------------------
\* The path of a manually routed edge (EdgeVisuals.tsx)
\* -----------------------------------------------------------------
\* One edge with stored waypoints is rendered again and again: when it is
\* mounted, when an anchor moves, when a segment drag replaces the stored
\* list, and when the component renders for any other reason.  The points
\* that the computation works on carry, in ref, the index of the stored
\* waypoint object they are (0 for an object made by the computation), so
\* that a write through the object is seen in the stored list.

MaxMoves == 2
REPAIR_THRESHOLD == 3

ManualXs == {0, 100, 200}
ManualYs == {0, 2, 100}
ManualPoints == {Pt(px, py) : px \in ManualXs, py \in ManualYs}
ManualSourcePositions == {"Right", "Bottom"}
ManualTargetPositions == {"Left", "Top"}

MPt(px, py, r) == [x |-> px, y |-> py, ref |-> r]
bare(p) == Pt(p.x, p.y)
bareAll(points) == [i \in 1..Len(points) |-> bare(points[i])]

\* simplifyOrthogonalPoints on whole-number points
simplifyPlain(points) ==
    LET xs == [i \in 1..Len(points) |-> XPt(Num(points[i].x), Num(points[i].y))]
        out == simplifyOrthogonalPoints(xs)
    IN [i \in 1..Len(out) |-> Pt(out[i].x.v, out[i].y.v)]

\* every step of the polyline is horizontal or vertical
AxisAligned(points) ==
    \A i \in 1..(Len(points) - 1) :
        points[i].x = points[i + 1].x \/ points[i].y = points[i + 1].y

\* the first step of a polyline runs along the axis the position faces
alongAxis(pos, a, b) == IF pos = "Left" \/ pos = "Right" THEN a.y = b.y ELSE a.x = b.x

\* the lists a segment drag of an interior segment leaves in the edge: the
\* interior of a simplified axis-aligned polyline between the two anchors
\* that leaves and arrives along the axes the anchors face
StoredWaypoints(source, sourcePosition, target, targetPosition) ==
    {w \in [1..1 -> ManualPoints] \cup [1..2 -> ManualPoints] :
        LET full == <<source>> \o w \o <<target>>
        IN /\ source # target
           /\ AxisAligned(full)
           /\ alongAxis(sourcePosition, source, w[1])
           /\ alongAxis(targetPosition, target, w[Len(w)])
           /\ simplifyPlain(full) = full}

\* [{x: sourceX, y: sourceY}, ...waypoints, {x: targetX, y: targetY}]
manualPoints(source, waypoints, target) ==
    <<MPt(source.x, source.y, 0)>>
        \o [i \in 1..Len(waypoints) |-> MPt(waypoints[i].x, waypoints[i].y, i)]
        \o <<MPt(target.x, target.y, 0)>>

headRepair(points, sourcePosition, preferSlide) ==
    LET p0 == points[1]
        p1 == points[2]
        isHoriz == (sourcePosition = "Left" \/ sourcePosition = "Right")
        isHeadAligned == IF isHoriz THEN Abs(p0.y - p1.y) < REPAIR_THRESHOLD
                         ELSE Abs(p0.x - p1.x) < REPAIR_THRESHOLD
        hasP2 == Len(points) >= 3
        isP1P2Vert == hasP2 /\ Abs(p1.x - points[3].x) < 1
        isP1P2Horiz == hasP2 /\ Abs(p1.y - points[3].y) < 1
        sDir == getDirectionVector(sourcePosition)
        stub == MPt(p0.x + sDir.x * STUB, p0.y + sDir.y * STUB, 0)
        bridge == IF isHoriz THEN MPt(stub.x, p1.y, 0) ELSE MPt(p1.x, stub.y, 0)
    IN IF Len(points) < 2 \/ isHeadAligned THEN points
       ELSE IF preferSlide /\ hasP2 /\ isHoriz /\ isP1P2Vert
       THEN [points EXCEPT ![2].y = p0.y]
       ELSE IF preferSlide /\ hasP2 /\ ~ isHoriz /\ isP1P2Horiz
       THEN [points EXCEPT ![2].x = p0.x]
       ELSE <<p0, stub, bridge>> \o SubSeq(points, 2, Len(points))

tailRepair(points, targetPosition, preferSlide) ==
    LET n == Len(points)
        pend == points[n]
        pn_1 == points[n - 1]
        isHoriz == (targetPosition = "Left" \/ targetPosition = "Right")
        isTailAligned == IF isHoriz THEN Abs(pend.y - pn_1.y) < REPAIR_THRESHOLD
                         ELSE Abs(pend.x - pn_1.x) < REPAIR_THRESHOLD
        hasPn2 == n >= 3
        isPrevSegVert == hasPn2 /\ Abs(pn_1.x - points[n - 2].x) < 1
        isPrevSegHoriz == hasPn2 /\ Abs(pn_1.y - points[n - 2].y) < 1
        tDir == getDirectionVector(targetPosition)
        stub == MPt(pend.x + tDir.x * STUB, pend.y + tDir.y * STUB, 0)
        bridge == IF isHoriz THEN MPt(stub.x, pn_1.y, 0) ELSE MPt(pn_1.x, stub.y, 0)
    IN IF n < 2 \/ isTailAligned THEN points
       ELSE IF preferSlide /\ hasPn2 /\ isHoriz /\ isPrevSegVert
       THEN [points EXCEPT ![n - 1].y = pend.y]
       ELSE IF preferSlide /\ hasPn2 /\ ~ isHoriz /\ isPrevSegHoriz
       THEN [points EXCEPT ![n - 1].x = pend.x]
       ELSE SubSeq(points, 1, n - 1) \o <<bridge, stub, pend>>

\* the loop that puts a corner into every step that is neither vertical nor
\* horizontal
RECURSIVE orthogonalize(_, _, _)
orthogonalize(out, cleanPoints, i) ==
    IF i > Len(cleanPoints) - 1 THEN out
    ELSE LET curr == cleanPoints[i]
             next == cleanPoints[i + 1]
             isVert == Abs(curr.x - next.x) < 1
             isHoriz == Abs(curr.y - next.y) < 1
         IN IF ~ isVert /\ ~ isHoriz
            THEN orthogonalize(out \o <<Pt(next.x, curr.y), next>>, cleanPoints, i + 1)
            ELSE orthogonalize(Append(out, next), cleanPoints, i + 1)

\* the stored list as the computation leaves it: each stored object with
\* the coordinates last written to it
storedAfter(points, waypoints) ==
    [i \in 1..Len(waypoints) |->
        bare(points[CHOOSE k \in 1..Len(points) : points[k].ref = i])]

NoPrev == [source |-> NullPos, target |-> NullPos, version |-> -1]

ManualInit ==
    /\ nodes = <<>>
    /\ edges = <<>>
    /\ dragStartPosRef = NullPos
    /\ yPosRef = INIT_Y
    /\ nextId = 1
    /\ timeoutPending = FALSE
    /\ drag = Idle
    /\ last = Op("init")
    /\ ops = 0
    /\ timer = NoTimer
    /\ gesture = NoGesture
    /\ \E source \in ManualPoints, target \in ManualPoints :
       \E sp \in ManualSourcePositions, tp \in ManualTargetPositions :
       \E w \in StoredWaypoints(source, sp, target, tp) :
           route = [phase |-> "manual", sourcePosition |-> sp,
                    targetPosition |-> tp, source |-> source,
                    target |-> target, waypoints |-> w, version |-> 0,
                    prev |-> NoPrev, before |-> w, allPoints |-> <<>>,
                    op |-> "init", moves |-> 0]

\* one render of the edge with the properties r: the computation reads the
\* values of the render before (usePrevious), repairs head and tail of the
\* manual points, simplifies, puts in the corners and simplifies again; the
\* effects then record the values of this render
renderEdge(r, name) ==
    LET mounted == r.prev # NoPrev
        sx == IF mounted THEN r.prev.source ELSE r.source
        tx == IF mounted THEN r.prev.target ELSE r.target
        pwps == IF mounted THEN r.prev.version ELSE r.version
        isNodeMove == sx # r.source \/ tx # r.target
        isEdgeDrag == r.version # pwps
        preferSlide == isNodeMove \/ ~ isEdgeDrag
    IN \E points \in {manualPoints(r.source, r.waypoints, r.target)} :
       \E head \in {headRepair(points, r.sourcePosition, preferSlide)} :
       \E repaired \in {tailRepair(head, r.targetPosition, preferSlide)} :
       \E cleanPoints \in {simplifyPlain(bareAll(repaired))} :
       \E orthogonalizedPoints \in {orthogonalize(<<cleanPoints[1]>>, cleanPoints, 1)} :
       \E finalPoints \in {simplifyPlain(orthogonalizedPoints)} :
           route' = [r EXCEPT !.before = r.waypoints,
                              !.waypoints = storedAfter(repaired, r.waypoints),
                              !.allPoints = finalPoints,
                              !.prev = [source |-> r.source, target |-> r.target,
                                        version |-> r.version],
                              !.op = name,
                              !.moves = IF name = "mount" THEN 0 ELSE r.moves + 1]

\* the first render of the edge
mountEdge ==
    /\ route.phase = "manual" /\ route.prev = NoPrev
    /\ renderEdge(route, "mount")
    /\ UNCHANGED <<canvasVars, timer, gesture>>

\* the source node moves: the edge renders with a new sourceX, sourceY
moveSource ==
    /\ route.phase = "manual" /\ route.prev # NoPrev /\ route.moves < MaxMoves
    /\ \E p \in ManualPoints \ {route.source, route.target} :
        renderEdge([route EXCEPT !.source = p], "moveSource")
    /\ UNCHANGED <<canvasVars, timer, gesture>>

\* the target node moves: the edge renders with a new targetX, targetY
moveTarget ==
    /\ route.phase = "manual" /\ route.prev # NoPrev /\ route.moves < MaxMoves
    /\ \E p \in ManualPoints \ {route.source, route.target} :
        renderEdge([route EXCEPT !.target = p], "moveTarget")
    /\ UNCHANGED <<canvasVars, timer, gesture>>

\* a segment drag: setEdges puts a new waypoint array into the edge, and
\* the edge renders with it
segmentDrag ==
    /\ route.phase = "manual" /\ route.prev # NoPrev /\ route.moves < MaxMoves
    /\ \E w \in StoredWaypoints(route.source, route.sourcePosition,
                                route.target, route.targetPosition) :
        renderEdge([route EXCEPT !.waypoints = w,
                             !.version = route.version + 1], "segmentDrag")
    /\ UNCHANGED <<canvasVars, timer, gesture>>

\* the edge renders again with the same properties
rerenderEdge ==
    /\ route.phase = "manual" /\ route.prev # NoPrev /\ route.moves < MaxMoves
    /\ renderEdge(route, "rerender")
    /\ UNCHANGED <<canvasVars, timer, gesture>>

ManualNext ==
    \/ mountEdge
    \/ moveSource
    \/ moveTarget
    \/ segmentDrag
    \/ rerenderEdge

SpecManual == ManualInit /\ [][ManualNext]_vars

\* -----------------------------------------------------------------
\* Export to JSON and import in overwrite mode (useDataPersistence)
\* -----------------------------------------------------------------
\* The canvas handlers run as in Spec; a segment drag can give an edge
\* stored waypoints.  exportToJson serialises getNodes() and getEdges(),
\* importFromJson parses the text and hands it to loadProjectData, which
\* replaces both collections and schedules the layout pass.  A JSON value is
\* a record of its kind t and its content v; an object is a function from
\* the keys it has, and a key whose value is undefined is left out.

JNumber(n) == [t |-> "number", v |-> n]
JString(s) == [t |-> "string", v |-> s]
JBoolean(b) == [t |-> "boolean", v |-> b]
JArray(s) == [t |-> "array", v |-> s]
JObject(f) == [t |-> "object", v |-> f]

\* data.waypoints of an edge, <<>> while the edge has none
waypointsOf(e) == IF "waypoints" \in DOMAIN e THEN e.waypoints ELSE <<>>

pointToJson(p) == JObject([k \in {"x", "y"} |-> JNumber(IF k = "x" THEN p.x ELSE p.y)])

nodeToJson(n) ==
    LET styleKeys == (IF n.styleW # Undef THEN {"width"} ELSE {})
                         \cup (IF n.styleH # Undef THEN {"height"} ELSE {})
        keys == {"id", "type", "position", "data", "style", "selected"}
                    \cup (IF n.parentNode # NoParent THEN {"parentNode"} ELSE {})
                    \cup (IF n.height # Undef THEN {"height"} ELSE {})
    IN JObject([k \in keys |->
        CASE k = "id" -> JString(n.id)
          [] k = "type" -> JString(n.type)
          [] k = "position" -> pointToJson(Pt(n.x, n.y))
          [] k = "data" -> JObject([d \in {"isLast"} |-> JBoolean(n.isLast)])
          [] k = "style" -> JObject([s \in styleKeys |->
                                JNumber(IF s = "width" THEN n.styleW ELSE n.styleH)])
          [] k = "selected" -> JBoolean(n.selected)
          [] k = "parentNode" -> JString(n.parentNode)
          [] OTHER -> JNumber(n.height)])

edgeToJson(e) ==
    LET dataKeys == IF "waypoints" \in DOMAIN e THEN {"waypoints"} ELSE {}
    IN JObject([k \in {"id", "source", "target", "selected", "data"} |->
        CASE k = "id" -> JString(e.id)
          [] k = "source" -> JString(e.source)
          [] k = "target" -> JString(e.target)
          [] k = "selected" -> JBoolean(e.selected)
          [] OTHER -> JObject([d \in dataKeys |->
                         JArray([i \in 1..Len(e.waypoints) |->
                                    pointToJson(e.waypoints[i])])])])

\* JSON.stringify({version, nodes: getNodes(), edges: getEdges()})
stringifyProject(nds, eds) ==
    JObject([k \in {"version", "nodes", "edges"} |->
        CASE k = "version" -> JString("1.0.0")
          [] k = "nodes" -> JArray([i \in 1..Len(nds) |-> nodeToJson(nds[i])])
          [] OTHER -> JArray([i \in 1..Len(eds) |-> edgeToJson(eds[i])])])

\* the value of a key, or the given default where the object lacks the key
member(obj, key, default) == IF key \in DOMAIN obj.v THEN obj.v[key].v ELSE default

jsonToPoint(j) == Pt(j.v["x"].v, j.v["y"].v)

jsonToNode(j) ==
    [id |-> j.v["id"].v, type |-> j.v["type"].v,
     x |-> j.v["position"].v["x"].v, y |-> j.v["position"].v["y"].v,
     parentNode |-> member(j, "parentNode", NoParent),
     styleW |-> member(j.v["style"], "width", Undef),
     styleH |-> member(j.v["style"], "height", Undef),
     height |-> member(j, "height", Undef),
     selected |-> j.v["selected"].v,
     isLast |-> j.v["data"].v["isLast"].v]

jsonToEdge(j) ==
    LET plain == [id |-> j.v["id"].v, source |-> j.v["source"].v,
                  target |-> j.v["target"].v, selected |-> j.v["selected"].v]
        points == j.v["data"].v["waypoints"].v
    IN IF "waypoints" \in DOMAIN j.v["data"].v
       THEN [id |-> plain.id, source |-> plain.source, target |-> plain.target,
             selected |-> plain.selected,
             waypoints |-> [i \in 1..Len(points) |-> jsonToPoint(points[i])]]
       ELSE plain

\* JSON.parse of the exported text, as loadProjectData reads it
parseProject(json) ==
    [nodes |-> [i \in 1..Len(json.v["nodes"].v) |-> jsonToNode(json.v["nodes"].v[i])],
     edges |-> [i \in 1..Len(json.v["edges"].v) |-> jsonToEdge(json.v["edges"].v[i])]]

DraggedWaypoints == {<<Pt(100, 0), Pt(100, 100)>>}

\* a segment drag stores a waypoint list in the data of an edge
storeWaypoints ==
    /\ route = NoRoute /\ drag.phase = "idle"
    /\ \E i \in 1..Len(edges) : \E w \in DraggedWaypoints :
        /\ waypointsOf(edges[i]) = <<>>
        /\ edges' = [edges EXCEPT ![i] =
                        [id |-> @.id, source |-> @.source, target |-> @.target,
                         selected |-> @.selected, waypoints |-> w]]
    /\ last' = Op("segmentDrag")
    /\ UNCHANGED <<nodes, dragStartPosRef, yPosRef, nextId, timeoutPending, drag,
                   ops, timer, gesture, route>>

\* exportToJson: the file holds the text of the two collections
exportToJson ==
    /\ route = NoRoute /\ drag.phase = "idle"
    /\ nodes # <<>>
    /\ route' = [phase |-> "exported", json |-> stringifyProject(nodes, edges),
                 nodes |-> nodes, edges |-> edges]
    /\ last' = Op("export")
    /\ UNCHANGED <<nodes, edges, dragStartPosRef, yPosRef, nextId, timeoutPending,
                   drag, ops, timer, gesture>>

\* importFromJson: loadProjectData(JSON.parse(content), false) replaces the
\* collections and arms the timeout of the layout pass; the callbacks that
\* the hydration puts into data are no part of the modelled node
importFromJson ==
    /\ route.phase = "exported"
    /\ LET data == parseProject(route.json)
       IN /\ nodes' = data.nodes
          /\ edges' = data.edges
    /\ route' = [route EXCEPT !.phase = "loaded"]
    /\ last' = Op("import")
    /\ UNCHANGED <<dragStartPosRef, yPosRef, nextId, timeoutPending, drag, ops,
                   timer, gesture>>

\* the timeout of loadProjectData fires: onLayout()
importLayout ==
    /\ route.phase = "loaded"
    /\ nodes' = runLayout(nodes)
    /\ route' = [route EXCEPT !.phase = "laid"]
    /\ last' = Op("importLayout")
    /\ UNCHANGED <<edges, dragStartPosRef, yPosRef, nextId, timeoutPending, drag,
                   ops, timer, gesture>>

PersistNext ==
    \/ route = NoRoute /\ Next
    \/ storeWaypoints
    \/ exportToJson
    \/ importFromJson
    \/ importLayout

SpecPersist == Init /\ [][PersistNext]_vars

\* =================================================================
\* Claims
\* =================================================================
RECURSIVE SumHeights(_)
SumHeights(S) ==
    IF S = {} THEN 0
    ELSE LET c == CHOOSE x \in S : TRUE
         IN getNodeHeight(c) + SumHeights(S \ {c})

KidsOf(nds, g) == {n \in Range(nds) : n.parentNode = g}

Groups(nds) == {n \in Range(nds) : IsGroup(n)}

\* bottom edge (Y + effective height) of the lowest child of group g
LowestBottom(nds, g) ==
    LET low == CHOOSE c \in KidsOf(nds, g) : \A d \in KidsOf(nds, g) : d.y <= c.y
    IN low.y + getNodeHeight(low)

HeightFits(nds, g) ==
    g.styleH = Max(LowestBottom(nds, g.id) + GROUP_PADDING_BOTTOM, MIN_GROUP_HEIGHT)

Before(nds, g, c) ==
    {d \in KidsOf(nds, g) :
        \/ d.y < c.y
        \/ d.y = c.y /\ IndexOf(nds, d.id) < IndexOf(nds, c.id)}

IsRearrangeStep == last'.op = "rearrangeGroup" /\ nodes # <<>>

\* C2 (as stated): after compaction child i (i in 1..N, ascending Y) sits at
\* top padding + (h1 + ... + h[i-1]) + i * gap.
C2_StackedWithIGaps ==
    [][IsRearrangeStep =>
         \A c \in KidsOf(nodes, last'.node) :
             NodeOf(nodes', c.id).y =
                 GROUP_PADDING_TOP + SumHeights(Before(nodes, last'.node, c))
                 + (Cardinality(Before(nodes, last'.node, c)) + 1) * NODE_GAP]_vars

\* C2 (amended): after compaction child i (i in 1..N, ascending Y) sits at
\* top padding + (h1 + ... + h[i-1]) + (i - 1) * gap.
C2_Stacked ==
    [][IsRearrangeStep =>
         \A c \in KidsOf(nodes, last'.node) :
             NodeOf(nodes', c.id).y =
                 GROUP_PADDING_TOP + SumHeights(Before(nodes, last'.node, c))
                 + Cardinality(Before(nodes, last'.node, c)) * NODE_GAP]_vars

\* a compacted group of three children of which the lowest sits below two
\* children of different heights
C2_Witness ==
    /\ last.op = "rearrangeGroup"
    /\ \E c \in KidsOf(nodes, last.node) :
           /\ Cardinality(Before(nodes, last.node, c)) = 2
           /\ \E d, e \in Before(nodes, last.node, c) : getNodeHeight(d) # getNodeHeight(e)
           /\ c.y = GROUP_PADDING_TOP + SumHeights(Before(nodes, last.node, c)) + 2 * NODE_GAP

\* the group that the last layout call has re-stacked, if any
RestackedGroups ==
    IF last.op = "rearrangeGroup"
    THEN {g \in Groups(nodes) : g.id = last.node /\ KidsOf(nodes, g.id) # {}}
    ELSE IF last.op = "adjustLayout" /\ last.node \in Ids(nodes)
    THEN {g \in Groups(nodes) : g.id = NodeOf(nodes, last.node).parentNode}
    ELSE {}

\* C3: after rearrangeGroup on a non-empty group, and after
\* adjustLayoutAfterResize on a grouped leaf, the group's style height and
\* its measured height both equal the bottom edge of its lowest child plus
\* the bottom padding, floored at 150.
C3_GroupHeight ==
    \A g \in RestackedGroups : HeightFits(nodes, g) /\ g.height = g.styleH

\* a leaf of a group of several children was resized and the group grew
\* beyond the floor
C3_Witness ==
    /\ last.op = "adjustLayout"
    /\ \E g \in RestackedGroups :
           Cardinality(KidsOf(nodes, g.id)) >= 2 /\ g.styleH > MIN_GROUP_HEIGHT

\* C4: compaction is idempotent: compacting a compacted group changes
\* no child position and no group height, whatever the collection.
C4_Idempotent ==
    \A g \in Ids(nodes) :
        rearrangeGroup(rearrangeGroup(nodes, g), g) = rearrangeGroup(nodes, g)

\* a group of three children of different heights has been compacted, next
\* to a group that is not compact
C4_Witness ==
    /\ last.op = "rearrangeGroup"
    /\ Cardinality(KidsOf(nodes, last.node)) = 3
    /\ \E c, d \in KidsOf(nodes, last.node) : getNodeHeight(c) # getNodeHeight(d)
    /\ \E g \in Groups(nodes) : rearrangeGroup(nodes, g.id) # nodes

\* ------------------------------------------------------ drag release
\* the step is the release of the dragged grouped leaf d
IsRelease == drag.phase = "moved" /\ drag' = Idle /\ last'.op = "dragStop"

Dragged == NodeOf(nodes, drag.node)

IsLeafRelease ==
    /\ IsRelease
    /\ IsChat(Dragged)
    /\ Dragged.parentNode \in Ids(nodes)

WithinClick ==
    /\ dragStartPosRef.set
    /\ Dragged.x - dragStartPosRef.x \in (1 - CLICK_THRESHOLD)..(CLICK_THRESHOLD - 1)
    /\ Dragged.y - dragStartPosRef.y \in (1 - CLICK_THRESHOLD)..(CLICK_THRESHOLD - 1)

\* twice the absolute center of the dragged leaf at the release
Center2X ==
    2 * (NodeOf(nodes, Dragged.parentNode).x + Dragged.x)
    + (IF Dragged.styleW \in {Undef, 0} THEN DEFAULT_CHILD_WIDTH ELSE Dragged.styleW)

Center2Y ==
    2 * (NodeOf(nodes, Dragged.parentNode).y + Dragged.y) + getNodeHeight(Dragged)

\* stored size of a group, with the defaults of an unset size
StoredW(g) == IF g.styleW \in {Undef, 0} THEN DEFAULT_GROUP_WIDTH ELSE g.styleW

StoredH(g) == IF g.styleH \in {Undef, 0} THEN FALLBACK_GROUP_HEIGHT ELSE g.styleH

Contains(g) ==
    /\ 2 * g.x < Center2X /\ Center2X < 2 * (g.x + StoredW(g))
    /\ 2 * g.y < Center2Y /\ Center2Y < 2 * (g.y + StoredH(g))

Outside(g) ==
    \/ Center2X < 2 * g.x \/ Center2X > 2 * (g.x + StoredW(g))
    \/ Center2Y < 2 * g.y \/ Center2Y > 2 * (g.y + StoredH(g))

\* C5: a release beyond the click threshold chooses exactly one action:
\* MERGE into the first group, in collection order, whose rectangle contains
\* the center of the dragged leaf, if there is one; otherwise SPLIT if the
\* center is outside the original group's rectangle; otherwise SNAP.
C5_Classification ==
    [][(IsLeafRelease /\ ~ WithinClick) =>
         IF \E g \in Groups(nodes) : Contains(g)
         THEN /\ last'.action = "MERGE"
              /\ last'.target \in Ids(nodes)
              /\ Contains(NodeOf(nodes, last'.target))
              /\ \A g \in Groups(nodes) :
                     IndexOf(nodes, g.id) < IndexOf(nodes, last'.target) => ~ Contains(g)
         ELSE IF Outside(NodeOf(nodes, Dragged.parentNode))
         THEN last'.action = "SPLIT"
         ELSE last'.action = "SNAP"]_vars

\* a leaf was merged into the first of two groups that occupy the same place
C5_Witness ==
    /\ last.op = "dragStop" /\ last.action = "MERGE" /\ last.target # last.from
    /\ last.target \in Ids(nodes)
    /\ \E g \in Groups(nodes) :
           /\ g.id > last.target
           /\ g.x = NodeOf(nodes, last.target).x
           /\ g.y = NodeOf(nodes, last.target).y

\* C6: a release within the click threshold leaves every node where it was
\* before the drag started, the dragged leaf at its pre-drag position
\* included, and changes nothing else of the nodes and the edges.
C6_ClickRestores ==
    [][(IsLeafRelease /\ WithinClick) =>
         /\ edges' = edges
         /\ nodes' = [i \in 1..Len(nodes) |->
                        IF nodes[i].id = drag.node
                        THEN [nodes[i] EXCEPT !.x = dragStartPosRef.x,
                                              !.y = dragStartPosRef.y]
                        ELSE nodes[i]]]_vars

Touching(eds, id) == {e \in Range(eds) : e.source = id \/ e.target = id}

\* C7: after a release classified MERGE into another group, or SPLIT, no edge
\* touches the dragged leaf and every other edge is unchanged; after a
\* same-group MERGE or a SNAP the edges are unchanged.
C7_EdgeDetach ==
    [][IsLeafRelease =>
         /\ (\/ last'.action = "SPLIT"
             \/ last'.action = "MERGE" /\ last'.target # Dragged.parentNode) =>
                /\ Touching(edges', drag.node) = {}
                /\ Range(edges') = Range(edges) \ Touching(edges, drag.node)
                /\ Len(edges') = Len(edges) - Cardinality(Touching(edges, drag.node))
         /\ (\/ last'.action = "SNAP"
             \/ last'.action = "MERGE" /\ last'.target = Dragged.parentNode) =>
                edges' = edges]_vars

\* a SPLIT has detached an edge of the dragged leaf and left another edge
C7_Witness ==
    /\ last.op = "dragStop" /\ last.action = "SPLIT"
    /\ last.detached > 0
    /\ edges # <<>>

\* the children of g are stacked from the top padding with one gap between
\* consecutive children
Stacked(nds, g) ==
    \A c \in KidsOf(nds, g) :
        LET above == {d \in KidsOf(nds, g) : d.y < c.y}
        IN c.y = GROUP_PADDING_TOP + SumHeights(above) + Cardinality(above) * NODE_GAP

Occurrences(nds, id) == Cardinality({i \in 1..Len(nds) : nds[i].id = id})

\* C8: after a MERGE into another group the dragged leaf occurs once, as a
\* child of the target; the source group, if it keeps children, and the
\* target group are stacked without a vacated gap; the leaf has the rank of
\* its release Y (absolute Y minus the target's Y) among the target's
\* children.
C8_CrossGroupMerge ==
    [][(IsLeafRelease /\ last'.action = "MERGE" /\ last'.target # Dragged.parentNode) =>
         LET t == last'.target
             relY == NodeOf(nodes, Dragged.parentNode).y + Dragged.y - NodeOf(nodes, t).y
             leaf == NodeOf(nodes', drag.node)
         IN /\ Occurrences(nodes', drag.node) = 1
            /\ leaf.parentNode = t
            /\ t \in Ids(nodes')
            /\ Stacked(nodes', t)
            /\ Stacked(nodes', Dragged.parentNode)
            /\ KidsOf(nodes', Dragged.parentNode) # {} => Dragged.parentNode \in Ids(nodes')
            /\ {d.id : d \in KidsOf(nodes', Dragged.parentNode)}
                   = {d.id : d \in KidsOf(nodes, Dragged.parentNode)} \ {drag.node}
            /\ Cardinality({d \in KidsOf(nodes', t) : d.y < leaf.y})
                   = Cardinality({d \in KidsOf(nodes, t) : d.y <= relY})]_vars

\* a leaf has moved from a group that keeps a child into a group that
\* already had one
C8_Witness ==
    /\ last.op = "dragStop" /\ last.action = "MERGE" /\ last.target # last.from
    /\ KidsOf(nodes, last.from) # {}
    /\ Cardinality(KidsOf(nodes, last.target)) >= 2
    /\ NodeOf(nodes, last.node).parentNode = last.target

\* C9: after a SPLIT there is exactly one new group, of the leaf's height
\* plus the fixed paddings and of the default width, at the release point
\* or to the right of it; its only child is the dragged leaf at (20, 30);
\* the leaf has left its original group, whose remaining children are
\* stacked.
C9_Split ==
    [][(IsLeafRelease /\ last'.action = "SPLIT") =>
         LET old == NodeOf(nodes, Dragged.parentNode)
             fresh == {g \in Groups(nodes') : g.id \notin Ids(nodes)}
             leaf == NodeOf(nodes', drag.node)
         IN /\ Cardinality(fresh) = 1
            /\ Cardinality(Groups(nodes')) <= Cardinality(Groups(nodes)) + 1
            /\ \A g \in fresh :
                   /\ g.styleH = getNodeHeight(Dragged) + GROUP_PADDING_TOP
                                 + GROUP_PADDING_BOTTOM + SPLIT_EXTRA
                   /\ g.styleW = DEFAULT_GROUP_WIDTH
                   /\ g.y = old.y + Dragged.y - GROUP_PADDING_TOP
                   /\ g.x >= old.x + Dragged.x - CHILD_X
                   /\ KidsOf(nodes', g.id) = {leaf}
            /\ Occurrences(nodes', drag.node) = 1
            /\ leaf.x = CHILD_X /\ leaf.y = GROUP_PADDING_TOP
            /\ leaf.parentNode # Dragged.parentNode
            /\ {d.id : d \in KidsOf(nodes', old.id)}
                   = {d.id : d \in KidsOf(nodes, old.id)} \ {drag.node}
            /\ Stacked(nodes', old.id)]_vars

\* a leaf was split off a group that keeps a child
C9_Witness ==
    /\ last.op = "dragStop" /\ last.action = "SPLIT"
    /\ KidsOf(nodes, last.from) # {}
    /\ last.node \in Ids(nodes)
    /\ NodeOf(nodes, last.node).parentNode \notin {last.from, NoParent}

\* C10: every edge's source and target name nodes of the collection.
C10_NoDanglingEdge ==
    \A e \in Range(edges) : e.source \in Ids(nodes) /\ e.target \in Ids(nodes)

\* ------------------------------------------------------ delete
\* the step deletes the selected nodes, by either delete handler
IsDeleteStep ==
    /\ last'.op \in {"delete", "deleteSelection"}
    /\ \E n \in Range(nodes) : n.selected

Lost(g) == {c \in KidsOf(nodes, g) : c.id \notin Ids(nodes')}

\* C11: after a delete of the selected nodes no remaining node names an
\* absent group as its parent, every surviving group that lost a leaf is
\* stacked, and a group whose last leaf was deleted is removed.
C11_DeleteCascade ==
    [][IsDeleteStep =>
         /\ \A n \in Range(nodes') :
                n.parentNode # NoParent => n.parentNode \in Ids(nodes')
         /\ \A g \in Groups(nodes') : Lost(g.id) # {} => Stacked(nodes', g.id)
         /\ \A g \in Groups(nodes) :
                (Lost(g.id) # {} /\ Lost(g.id) = KidsOf(nodes, g.id)) =>
                    g.id \notin Ids(nodes')]_vars

\* the same, of the steps of handleDeleteSelected alone and of the parents
\* it deletes
C11_HandleDeleteSelected ==
    [][(IsDeleteStep /\ last'.op = "delete") =>
         /\ \A n \in Range(nodes') :
                n.parentNode \in Ids(nodes) => n.parentNode \in Ids(nodes')
         /\ \A g \in Groups(nodes') : Lost(g.id) # {} => Stacked(nodes', g.id)
         /\ \A g \in Groups(nodes) :
                (Lost(g.id) # {} /\ Lost(g.id) = KidsOf(nodes, g.id)) =>
                    g.id \notin Ids(nodes')]_vars

\* -----------------------------------------------------------------
\* Routing
\* -----------------------------------------------------------------
Routed == route.phase = "done"

ZeroCrossing(c) ==
    {k \in DOMAIN routerCandidates(c) :
        nodeIntersections(c, routerCandidates(c)[k].points) = 0}

\* C12: whenever at least one candidate of a routing call crosses no
\* group rectangle, the candidate the router returns crosses none.
C12_ZeroCrossingWins ==
    Routed => (ZeroCrossing(route.call) # {} => route.best.crossings = 0)

\* a group rectangle lies between the two stubs and spans the corridor
\* from the source stub's Y to the target stub's Y
AcrossCorridor(c) ==
    \E k \in DOMAIN groupsOf(c) :
        LET rect == getNodeRect(groupsOf(c)[k], HIT_PADDING)
        IN /\ rect.l > Min(pBufS(c).x, pBufT(c).x)
           /\ rect.r < Max(pBufS(c).x, pBufT(c).x)
           /\ rect.t <= Min(pBufS(c).y, pBufT(c).y)
           /\ rect.b >= Max(pBufS(c).y, pBufT(c).y)

\* the two baseline Z shapes: the Direct one through the default middle X
\* (the first candidate) and the Vertical one
Baseline(c) ==
    {k \in DOMAIN routerCandidates(c) :
        k = 1 \/ routerCandidates(c)[k].type = "Vertical"}

Blocked(c) ==
    /\ AcrossCorridor(c)
    /\ \A k \in Baseline(c) : k \notin ZeroCrossing(c)

C13_DetourGenerated ==
    (Routed /\ Blocked(route.call)) => ZeroCrossing(route.call) \ Baseline(route.call) # {}

\* C13: when a group rectangle lies across the whole corridor between the
\* stubs, so that both baseline candidates cross it, the router has a
\* detour candidate that crosses no rectangle and returns a candidate that
\* crosses none.
C13_DetourSelected ==
    (Routed /\ Blocked(route.call)) =>
        /\ ZeroCrossing(route.call) \ Baseline(route.call) # {}
        /\ route.best.crossings = 0

\* source facing right, target facing left and to the right of the source
\* at the same Y, no group to avoid and no other edge
OpenRow(c) ==
    /\ c.sourcePosition = "Right"
    /\ safeTargetPos(c) = "Left"
    /\ c.targetY = c.sourceY
    /\ c.targetX > c.sourceX
    /\ groupsOf(c) = <<>>
    /\ SelectSeq(c.existingEdges, LAMBDA e : e.id # c.edgeId /\ Len(e.waypoints) > 1) = <<>>

getManhattanDistance(c) == Abs(c.targetX - c.sourceX) + Abs(c.targetY - c.sourceY)

DirectAtDistance ==
    /\ route.best.type = "Direct"
    /\ route.best.index = 1
    /\ route.best.cost = getManhattanDistance(route.call)

\* C14 as stated: on an open row the router returns the direct
\* horizontal-first Z shape at a cost equal to the Manhattan distance, for
\* every edge id.
C14_DirectAlways == (Routed /\ OpenRow(route.call)) => DirectAtDistance

\* C14: on an open row whose target is at least 50 to the right of the
\* source (two stubs of 20 and a jitter of up to 5 either way), the router
\* returns the direct horizontal-first Z shape at a cost equal to the
\* Manhattan distance, for every edge id.
C14_DirectWhenApart ==
    (Routed /\ OpenRow(route.call)
       /\ route.call.targetX - route.call.sourceX >= 2 * STUB + HASH_LANES) =>
        DirectAtDistance

C14_Witness ==
    /\ Routed
    /\ OpenRow(route.call)
    /\ route.call.targetX - route.call.sourceX = 2 * STUB + HASH_LANES
    /\ laneHashOf(route.call) = -5
    /\ DirectAtDistance

\* -----------------------------------------------------------------
\* Debounce
\* -----------------------------------------------------------------
\* every burst but possibly the one in progress has had its one pass
OncePerBurst ==
    timer.phase = "run" =>
        \/ timer.runs = timer.bursts /\ timer.deadline = Undef
        \/ timer.runs = timer.bursts - 1 /\ timer.deadline # Undef

IsLayoutPass == timer.phase = "run" /\ timer'.runs = timer.runs + 1

IsLeafReport ==
    /\ last'.op \in {"resize", "adjustLayout"}
    /\ last'.node \in Ids(nodes)
    /\ IsChat(NodeOf(nodes, last'.node))

\* the nodes a report of leaf must leave alone: every group but the leaf's
\* own, and every leaf that is not in the leaf's group
Bystanders(nds, leaf) ==
    {n \in Range(nds) :
        /\ n.id # leaf.id
        /\ IF IsGroup(n) THEN n.id # leaf.parentNode
           ELSE leaf.parentNode = NoParent \/ n.parentNode # leaf.parentNode}

\* C16: the reaction to a leaf's size report stores the reported height on
\* the leaf and re-stacks the leaf's own group; every other group node and
\* every node of another group keeps its position, size and parent.
C16_ResizeFrame ==
    [][IsLeafReport =>
        LET leaf == NodeOf(nodes, last'.node)
        IN /\ Ids(nodes') = Ids(nodes)
           /\ NodeOf(nodes', leaf.id).styleH = last'.height
           /\ NodeOf(nodes', leaf.id).parentNode = leaf.parentNode
           /\ leaf.parentNode \in Ids(nodes) => Stacked(nodes', leaf.parentNode)
           /\ \A n \in Bystanders(nodes, leaf) : NodeOf(nodes', n.id) = n]_vars

C16_Witness ==
    /\ last.op = "resize"
    /\ last.node \in Ids(nodes)
    /\ IsChat(NodeOf(nodes, last.node))
    /\ NodeOf(nodes, last.node).styleH = last.height
    /\ \E n \in Bystanders(nodes, NodeOf(nodes, last.node)) : ~ IsGroup(n)
    /\ \E n \in Bystanders(nodes, NodeOf(nodes, last.node)) : IsGroup(n)

\* -----------------------------------------------------------------
\* Window listeners
\* -----------------------------------------------------------------
InProgress(kind) == \E b \in Buttons : gesture.holding[b] = kind

Registered(kind) == {l \in gesture.window : l.kind = kind}

\* C17: no window listener of a component is registered while the
\* component is unmounted or has no drag in progress.
C17_NoStrayListener ==
    gesture.phase = "run" =>
        \A k \in Kinds :
            (~ gesture.mounted[k] \/ ~ InProgress(k)) => Registered(k) = {}

\* as long as no mouse-down has come while the ref still held the pair of
\* an earlier one, the registry is clean
C17_CleanWithoutOverlap ==
    (gesture.phase = "run" /\ ~ gesture.overlapped) =>
        \A k \in Kinds :
            (~ gesture.mounted[k] \/ ~ InProgress(k)) => Registered(k) = {}

\* -----------------------------------------------------------------
\* The placement loop of SPLIT
\* -----------------------------------------------------------------
IsSplit == last.op = "dragStop" /\ last.action = "SPLIT"

\* the group a SPLIT release has made for the dragged leaf
SplitGroups ==
    {g \in Groups(nodes) :
        /\ g.id = nextId - 1
        /\ last.node \in Ids(nodes)
        /\ NodeOf(nodes, last.node).parentNode = g.id}

Overlapping(g) ==
    \E ex \in Groups(nodes) :
        ex.id # g.id /\ collides(ex, g.x, g.y, g.styleH)

\* C18: the placement loop of a SPLIT release makes at most 50 passes,
\* whatever the groups and the release position, and the release then
\* completes: the new group is in the collection with the leaf in it.
C18_NudgeBounded ==
    IsSplit => /\ last.loops >= 1
               /\ last.loops <= MAX_NUDGE
               /\ SplitGroups # {}

\* the loop gave up after 50 passes and the new group lies over another
C18_Witness ==
    /\ IsSplit
    /\ last.loops = MAX_NUDGE
    /\ \E g \in SplitGroups : Overlapping(g)

\* -----------------------------------------------------------------
\* Stale references
\* -----------------------------------------------------------------
\* a size report, follow-up or compaction for an id that is not in the
\* collection, or a release of a node that is not, or whose group is not
IsStaleCall ==
    /\ last'.op \in {"resize", "extend", "rearrangeGroup", "dragStop"}
    /\ \/ last'.node \notin Ids(nodes)
       \/ last'.op = "dragStop" /\ last'.from \notin Ids(nodes)

ValidPoint(p) == p # Missing /\ isFinite(p.x) /\ isFinite(p.y)

ValidOnly(points) == SelectSeq(points, ValidPoint)

PathFinite(path) ==
    \A i \in DOMAIN path : \A j \in DOMAIN path[i].args : isFinite(path[i].args[j])

PointsFinite(points) ==
    \A i \in DOMAIN points : isFinite(points[i].x) /\ isFinite(points[i].y)

PathGuarded ==
    route.phase = "path" =>
        /\ PathFinite(route.result)
        /\ route.result = pointsToPath(ValidOnly(route.points))
        /\ Len(ValidOnly(route.points)) < 2 => route.result = <<>>

LabelGuarded ==
    route.phase = "label" =>
        /\ isFinite(route.result[1]) /\ isFinite(route.result[2])
        /\ route.result = getLabelPositionFromPoints(ValidOnly(route.points))
        /\ Len(ValidOnly(route.points)) < 2 => route.result = <<Num(0), Num(0)>>

SimplifyGuarded ==
    route.phase = "simplified" =>
        /\ PointsFinite(route.result)
        /\ route.result = simplifyOrthogonalPoints(ValidOnly(route.points))

\* C20: for a point list with missing or non-finite points, the path, the
\* label position and the simplified list are computed from the valid
\* points only (both coordinates finite), are the empty path and (0, 0)
\* when fewer than two valid points remain, and hold no non-finite
\* coordinate.
C20_PathHelpersGuarded == PathGuarded /\ LabelGuarded /\ SimplifyGuarded

\* the Y by which the compaction of a release ranks a child of the group:
\* the release Y for the dragged leaf, the stored Y for every other child
ReleaseY(id) == NodeOf(nodes, id).y

\* C28: a release beyond the click threshold whose center is strictly
\* inside the leaf's own group is a MERGE, never a SNAP or a SPLIT; its
\* target is the own group unless an earlier group of the collection also
\* contains the center; a MERGE into the own group keeps every edge and
\* every child of the group and stacks the children in the order of their
\* Y at the release. A SNAP happens only with the center on the boundary of
\* the own group and strictly inside no group.
C28_OwnGroupRelease ==
    [][(IsLeafRelease /\ ~ WithinClick) =>
         LET own == Dragged.parentNode
         IN /\ Contains(NodeOf(nodes, own)) =>
                  /\ last'.action = "MERGE"
                  /\ (last'.target # own) =>
                         /\ last'.target \in Ids(nodes)
                         /\ IndexOf(nodes, last'.target) < IndexOf(nodes, own)
                         /\ Contains(NodeOf(nodes, last'.target))
                  /\ (last'.target = own) =>
                         /\ \A g \in Groups(nodes) :
                                IndexOf(nodes, g.id) < IndexOf(nodes, own) => ~ Contains(g)
                         /\ edges' = edges
                         /\ {d.id : d \in KidsOf(nodes', own)} = {d.id : d \in KidsOf(nodes, own)}
                         /\ Stacked(nodes', own)
                         /\ \A a, b \in KidsOf(nodes', own) :
                                a.y < b.y => ReleaseY(a.id) <= ReleaseY(b.id)
            /\ last'.action = "SNAP" =>
                  /\ ~ Outside(NodeOf(nodes, own))
                  /\ ~ Contains(NodeOf(nodes, own))
                  /\ \A g \in Groups(nodes) : ~ Contains(g)]_vars

\* a leaf released inside its own group has changed places with a sibling
C28_Witness ==
    /\ last.op = "dragStop" /\ last.action = "MERGE" /\ last.target = last.from
    /\ last.node \in Ids(nodes)
    /\ \E d \in KidsOf(nodes, last.from) :
           /\ d.id < last.node /\ d.y > NodeOf(nodes, last.node).y

\* a leaf released with its center on the boundary of its group went back
C28_SnapWitness ==
    /\ last.op = "dragStop" /\ last.action = "SNAP"

\* the Y a child counts with: a leaf held in a drag counts with the Y it had
\* when the drag started, the Y it goes back to or is re-ranked from at the
\* release
RestY(c) ==
    IF drag.phase # "idle" /\ c.id = drag.node /\ dragStartPosRef.set
    THEN dragStartPosRef.y ELSE c.y

\* group g, if it has a child, has exactly one child flagged isLast, and no
\* child lies below it
OneLast(g) ==
    KidsOf(nodes, g) # {} =>
        /\ Cardinality({c \in KidsOf(nodes, g) : c.isLast}) = 1
        /\ \A c \in KidsOf(nodes, g) :
               c.isLast => \A d \in KidsOf(nodes, g) : d.id # c.id => RestY(d) < RestY(c)

LastIsLowest == \A g \in Groups(nodes) : OneLast(g.id)

OverlappingIn(nds, g) ==
    \E ex \in Groups(nds) : ex.id # g.id /\ collides(ex, g.x, g.y, g.styleH)

\* C30: every nudge of a SPLIT release moves the candidate X strictly to the
\* right and no group is collided with twice; with fewer than 50 groups in
\* the collection at the release the loop ends on a pass without collision
\* and the new group, of the default width and the computed height, touches
\* no other group.
C30_NudgeClears ==
    [][(IsLeafRelease /\ last'.action = "SPLIT") =>
         LET hits == last'.hits
             fresh == {g \in Groups(nodes') : g.id \notin Ids(nodes)}
         IN /\ \A k \in 1..Len(hits) :
                   /\ hits[k].to > hits[k].from
                   /\ \A j \in 1..(k - 1) : hits[j].group # hits[k].group
            /\ Cardinality(Groups(nodes)) < MAX_NUDGE =>
                   /\ last'.loops = Len(hits) + 1
                   /\ last'.loops <= MAX_NUDGE
                   /\ fresh # {}
                   /\ \A g \in fresh :
                          /\ g.styleW = DEFAULT_GROUP_WIDTH
                          /\ g.styleH = splitGroupHeight(getNodeHeight(Dragged))
                          /\ ~ OverlappingIn(nodes', g)]_vars

\* 49 groups at the release, 48 of them in the way: the loop has nudged the
\* new group past all 48 and ended on its 49th pass
C30_Witness ==
    /\ IsSplit
    /\ Cardinality(Groups(nodes)) = MAX_NUDGE
    /\ Len(last.hits) = MAX_NUDGE - 2
    /\ last.loops = MAX_NUDGE - 1
    /\ \A g \in SplitGroups : ~ OverlappingIn(nodes, g)
    /\ SplitGroups # {}

\* the collection with the id a SPLIT drew replaced by another id
Rename(nds, from, to) ==
    [i \in 1..Len(nds) |->
        [nds[i] EXCEPT !.id = IF @ = from THEN to ELSE @,
                       !.parentNode = IF @ = from THEN to ELSE @]]

Twin == route.phase = "twin"

ResizedInGroup ==
    /\ last.op = "adjustLayout"
    /\ last.node \in Ids(last.prior)
    /\ NodeOf(last.prior, last.node).parentNode \in Ids(last.prior)

\* the resized leaf is where it was and every sibling that was below it is
\* lower by the change of the leaf's height
ShiftedBelow ==
    LET leaf == NodeOf(last.prior, last.node)
        delta == last.height - layoutNodeHeight(leaf)
        below == {d \in KidsOf(last.prior, leaf.parentNode) : d.y > leaf.y}
    IN /\ NodeOf(nodes, last.node).y = leaf.y
       /\ \A d \in below :
              /\ NodeOf(nodes, d.id).y = d.y + delta
              /\ (\A e \in below : d.y <= e.y) =>
                     NodeOf(nodes, d.id).y = leaf.y + last.height + NODE_GAP

\* the children of g are stacked one below the other: no two share a Y
StackedApart(nds, g) ==
    /\ Stacked(nds, g)
    /\ \A c, d \in KidsOf(nds, g) : c.id # d.id => c.y # d.y

OnHeap == route.phase = "heap"

\* the functions on objects return what the functions on values return
C24_SameResult ==
    OnHeap =>
        nodes = CASE last.op = "rearrangeGroup" -> rearrangeGroup(last.prior, last.node)
                  [] last.op = "adjustLayout" ->
                         adjustLayoutAfterResize(last.prior, last.node, last.height)
                  [] OTHER ->
                         adjustLayoutAfterResizeInline(last.prior, last.node, last.height)

\* C24: rearrangeGroup and both versions of adjustLayoutAfterResize leave
\* the array passed to them, and every node, position and style object it
\* holds, as they were before the call: every object that existed before
\* the call is unchanged after it.
C24_InputUntouched ==
    OnHeap => \A a \in 1..Len(route.before) : route.after[a] = route.before[a]

\* a call has moved a child and resized the group in its result, and the
\* result shares an object with the collection passed
C24_Witness ==
    /\ OnHeap
    /\ route.result # route.input
    /\ \E i \in 1..Len(nodes) : nodes[i].y # last.prior[i].y
    /\ \E i \in 1..Len(nodes) : nodes[i].styleH # last.prior[i].styleH
    /\ \E a \in Range(route.after[route.result].items) :
           \/ a <= Len(route.before)
           \/ route.after[a].style <= Len(route.before)
           \/ route.after[a].position <= Len(route.before)

MenuDeleted == route.phase = "deleted"

\* what a delete of node id takes out of nds: the node, its children if it
\* is a group, and its group if the node is the group's only child
Cascade(nds, id) ==
    LET n == NodeOf(nds, id)
    IN {id}
       \cup {c.id : c \in KidsOf(nds, id)}
       \cup (IF n.parentNode # NoParent /\ KidsOf(nds, n.parentNode) = {n}
             THEN {n.parentNode} ELSE {})

\* C27: Delete in a node's context menu deletes exactly the right-clicked
\* node, with its children or its emptied group and its edges, whatever was
\* selected before the menu was used: the nodes left are those of before
\* without the cascade of the right-clicked node and no edge left touches a
\* deleted node's id.
C27_MenuDeletesClicked ==
    MenuDeleted =>
        LET gone == Cascade(route.closure, route.nodeId)
        IN /\ Ids(nodes) = Ids(route.closure) \ gone
           /\ \A i \in 1..Len(edges) :
                  edges[i].source # route.nodeId /\ edges[i].target # route.nodeId

\* the deferred delete found the right-clicked node selected when the menu
\* was clicked, and removed it
C27_WhenAlreadySelected ==
    (MenuDeleted /\ NodeOf(route.closure, route.nodeId).selected
                 /\ \A n \in Range(route.closure) : n.selected => n.id = route.nodeId)
        => Ids(nodes) = Ids(route.closure) \ Cascade(route.closure, route.nodeId)

\* ------------------------------------------------------------------ C21
Rendered == route.phase = "manual" /\ route.op # "init"

AnchorMoved == route.phase = "manual" /\ route.op \in {"moveSource", "moveTarget"}

Attached ==
    /\ Len(route.allPoints) >= 2
    /\ route.allPoints[1] = route.source
    /\ route.allPoints[Len(route.allPoints)] = route.target

LeavesAlongFacing ==
    /\ Len(route.allPoints) >= 2
    /\ alongAxis(route.sourcePosition, route.allPoints[1], route.allPoints[2])

ArrivesAlongFacing ==
    LET n == Len(route.allPoints)
    IN /\ n >= 2
       /\ alongAxis(route.targetPosition, route.allPoints[n], route.allPoints[n - 1])

\* the two parts of C21 that every render after an anchor move keeps
C21_StaysAttached == AnchorMoved => Attached

C21_StaysAxisAligned == AnchorMoved => AxisAligned(route.allPoints)

\* C21: after an anchor of a manually routed edge has moved, the rendered
\* polyline starts at the source anchor, ends at the target anchor, has only
\* horizontal and vertical segments, and its first and last segments run
\* along the facing axis of the source and of the target anchor.
C21_AttachedOrthogonal ==
    AnchorMoved =>
        /\ Attached
        /\ AxisAligned(route.allPoints)
        /\ LeavesAlongFacing
        /\ ArrivesAlongFacing

\* ------------------------------------------------------------------ C26
\* C26: computing the rendered path of a manually routed edge leaves the
\* stored waypoint list as it was before the computation.
C26_WaypointsUntouched == Rendered => route.waypoints = route.before

\* ------------------------------------------------------------------ C23
\* position and sizes of every node, in the order of the collection
Geometry(nds) ==
    [i \in 1..Len(nds) |->
        [id |-> nds[i].id, x |-> nds[i].x, y |-> nds[i].y, width |-> nds[i].styleW,
         styleHeight |-> nds[i].styleH, height |-> nds[i].height]]

Waypoints(eds) == [i \in 1..Len(eds) |-> [id |-> eds[i].id, waypoints |-> waypointsOf(eds[i])]]

\* the import alone gives back both collections as they were exported
C23_LoadedAsExported ==
    route.phase = "loaded" => nodes = route.nodes /\ edges = route.edges

\* the waypoints are those of the export after the layout pass too
C23_WaypointsKept ==
    route.phase = "laid" => Waypoints(edges) = Waypoints(route.edges)

\* C23: once the import in overwrite mode and the layout pass it schedules
\* have completed, node positions, node sizes and edge waypoints equal those
\* of the canvas that was exported.
C23_RoundTrip ==
    route.phase = "laid" =>
        /\ Geometry(nodes) = Geometry(route.nodes)
        /\ Waypoints(edges) = Waypoints(route.edges)

====
